---- MODULE Spec2Model ----
(***************************************************************************)
(* Circulation core of the digital library (src/apa.py, src/apipi.py):     *)
(* a catalog of books, a FIFO queue of borrow requests drained by a        *)
(* periodic tick or a manual step, and a LIFO history used by undo.        *)
(*                                                                         *)
(* Widgets are not modelled.  What the handlers read from them is an input *)
(* of the action: the selected line of the book list and the answers of    *)
(* the dialogs.  Every handler that changes the catalog ends with          *)
(* refresh_book_list, so the book list always shows the current catalog.   *)
(* The "time" field of requests and history entries is the clock that      *)
(* also gives the request id; it is kept once, as request_id.              *)
(* A dialog that is dismissed before the handler touches anything (no      *)
(* selection, empty id or user name, "no" to the delete question) leaves   *)
(* every variable as it is and is not an action of its own.                *)
(*                                                                         *)
(* src/apipi.py holds the same Library, queue, history and handlers; its   *)
(* borrow_enqueue also refuses a book that is missing or has no copy.  Its *)
(* setup_gui builds a Treeview and never creates the book_listbox that its *)
(* handlers read, a defect of the widget layer that is outside this model. *)
(*                                                                         *)
(* The repository holds four more programs, each with a window of its own: *)
(* the status-based library (src/apo.py), the translator (src/opo.py) and  *)
(* the memory games (src/MemoryGame.py and the two programs of             *)
(* src/RemiCard.py).  Each has its state in one record-valued variable     *)
(* (apo, opo, game) and runs under a specification of its own, in which    *)
(* the variables of the other programs stay as they are.                   *)
(***************************************************************************)
EXTENDS Naturals, Integers, Sequences, FiniteSets, TLC

\* ---------------------------------------------------------------- bounds
\* a return is tried while it leaves no book with more copies than this
MaxCopies == 3
\* add/edit/delete/return are tried while the history is shorter than this
MaxHist == 1
\* number of borrow requests ever submitted
MaxClock == 2
\* the same as MaxHist, where only the catalog and the history are exercised
MaxCrud == 2
\* adds and deletes that succeed, where nothing else is done
MaxOps == 4
\* src/apo.py: Book objects ever created (books added, backups of edits)
MaxObjects == 3
\* src/apo.py: entries on the undo stack
MaxUndo == 2
\* src/apo.py: requests waiting in the loan queue
MaxLoans == 2
\* src/opo.py: translations ever asked for, queued or direct
MaxTime == 2
\* memory games: pairs of cards on the table (the programs have 8)
Pairs == 2
\* memory games: seconds on the clock of the timed game (the program has 120)
StartSeconds == 3
\* memory games: second cards opened since the last restart
MaxSteps == 2
\* memory games: callbacks of one kind pending at a time
MaxPending == 2

VARIABLES
  variant,   \* "apa" or "apipi": which of the two programs runs
  books,     \* Library.books: book_id -> Book
  db,        \* contents of library_db.json
  queue,     \* RequestQueue.q
  history,   \* HistoryStack.stack
  timer,     \* number of pending root.after(process_queue_worker) callbacks
  clock,     \* time.time(), counted in submitted requests
  last,      \* the handler that ran last and what it reported
  apo,       \* src/apo.py: the LibraryApp of the status-based library
  opo,       \* src/opo.py: the TranslatorApp
  game       \* src/MemoryGame.py, src/RemiCard.py: the MemoryGame

vars == <<variant, books, db, queue, history, timer, clock, last, apo, opo, game>>

\* ------------------------------------------------------------ identifiers
\* A book id is a string; it is kept as the sequence of its
\* whitespace-separated words, which is what line.split() sees.
B001 == <<"B001">>
B002 == <<"B002">>
B003 == <<"B003">>
\* an id typed with a blank in it
B_4 == <<"B", "4">>

\* ids that are typed into the "Tambah Buku" dialog
TypedIds == {B003, B_4}

\* answer of a cancelled askinteger dialog (None)
Cancelled == 0 - 1
\* answer of a cancelled askstring dialog (None)
NoString == "<None>"

\* ------------------------------------------------------------------ Book
Book(book_id, title, author, pages, copies) ==
  [book_id |-> book_id, title |-> title, author |-> author,
   pages |-> pages, copies |-> copies]

to_dict(b) ==
  [book_id |-> b.book_id, title |-> b.title, author |-> b.author,
   pages |-> b.pages, copies |-> b.copies]

\* from_dict that does not read the stored copies and takes the default
from_dict_default_copies(d) == Book(d.book_id, d.title, d.author, d.pages, 1)

from_dict(d) == Book(d.book_id, d.title, d.author, d.pages, d.copies)

\* the sample database written by load_db when no file exists
sample ==
  (B001 :> to_dict(Book(B001, "Pemrograman Python", "Andi", 320, 3))) @@
  (B002 :> to_dict(Book(B002, "Struktur Data & Algoritma", "Budi", 280, 2))) @@
  (B003 :> to_dict(Book(B003, "Basis Data", "Citra", 240, 1)))

\* save_db that writes the books of the catalog into the file it finds and
\* leaves the other records of the file where they are
save_db_patches(bks, file, w) ==
  IF w THEN [bid \in DOMAIN bks \cup DOMAIN file |->
               IF bid \in DOMAIN bks THEN to_dict(bks[bid]) ELSE file[bid]]
       ELSE file

\* ---------------------------------------------------------------- Library
\* save_db: full overwrite of the file; w says whether the write succeeds
save_db(bks, file, w) ==
  IF w THEN [bid \in DOMAIN bks |-> to_dict(bks[bid])] ELSE file

\* load_db that leaves out the books that have no copy
load_db_skips_no_copies(file) ==
  [bid \in {b \in DOMAIN file : file[b].copies > 0} |-> from_dict(file[bid])]

load_db(file) == [bid \in DOMAIN file |-> from_dict(file[bid])]

\* The Library methods return the new catalog and file, and in "raised" the
\* exception they end with ("" when they return normally).
LibResult(bks, file, raised, value) ==
  [books |-> bks, db |-> file, raised |-> raised, value |-> value]

add_book(bks, file, book, w) ==
  IF book.book_id \in DOMAIN bks
    THEN LibResult(bks, file, "ValueError", FALSE)
    ELSE LET nb == (book.book_id :> book) @@ bks
         IN LibResult(nb, save_db(nb, file, w), "", TRUE)

\* kwargs always holds title, author, pages and copies in the callers; the
\* fields are assigned one after the other and int(None) raises TypeError
update_book(bks, file, book_id, title, author, pages, copies, w) ==
  IF book_id \notin DOMAIN bks
    THEN LibResult(bks, file, "KeyError", FALSE)
    ELSE
      LET b1 == [bks[book_id] EXCEPT !.title = title, !.author = author]
          b2 == [b1 EXCEPT !.pages = pages]
          b3 == [b2 EXCEPT !.copies = copies]
      IN IF pages = Cancelled
           THEN LibResult([bks EXCEPT ![book_id] = b1], file, "TypeError", FALSE)
         ELSE IF copies = Cancelled
           THEN LibResult([bks EXCEPT ![book_id] = b2], file, "TypeError", FALSE)
         ELSE LET nb == [bks EXCEPT ![book_id] = b3]
              IN LibResult(nb, save_db(nb, file, w), "", TRUE)

\* the keyword arguments of update_book: "given" holds the names that are
\* passed, the other fields hold the values passed under those names
Kwargs(given, title, author, pages, copies) ==
  [given |-> given, title |-> title, author |-> author,
   pages |-> pages, copies |-> copies]

\* update_book that builds the book anew from the arguments: a field that
\* is not passed gets the default of a new Book
update_book_kwargs_rebuilds(bks, file, book_id, kwargs, w) ==
  IF book_id \notin DOMAIN bks
    THEN LibResult(bks, file, "KeyError", FALSE)
    ELSE
      LET b == Book(book_id,
                    IF "title" \in kwargs.given THEN kwargs.title ELSE "",
                    IF "author" \in kwargs.given THEN kwargs.author ELSE "",
                    IF "pages" \in kwargs.given THEN kwargs.pages ELSE bks[book_id].pages,
                    IF "copies" \in kwargs.given THEN kwargs.copies ELSE 1)
          nb == [bks EXCEPT ![book_id] = b]
      IN LibResult(nb, save_db(nb, file, w), "", TRUE)

\* update_book for any set of keyword arguments: the fields passed are
\* assigned in the order title, author, pages, copies
update_book_kwargs(bks, file, book_id, kwargs, w) ==
  IF book_id \notin DOMAIN bks
    THEN LibResult(bks, file, "KeyError", FALSE)
    ELSE
      LET b0 == bks[book_id]
          b1 == IF "title" \in kwargs.given THEN [b0 EXCEPT !.title = kwargs.title] ELSE b0
          b2 == IF "author" \in kwargs.given THEN [b1 EXCEPT !.author = kwargs.author] ELSE b1
          b3 == IF "pages" \in kwargs.given THEN [b2 EXCEPT !.pages = kwargs.pages] ELSE b2
          b4 == IF "copies" \in kwargs.given THEN [b3 EXCEPT !.copies = kwargs.copies] ELSE b3
      IN IF "pages" \in kwargs.given /\ kwargs.pages = Cancelled
           THEN LibResult([bks EXCEPT ![book_id] = b2], file, "TypeError", FALSE)
         ELSE IF "copies" \in kwargs.given /\ kwargs.copies = Cancelled
           THEN LibResult([bks EXCEPT ![book_id] = b3], file, "TypeError", FALSE)
         ELSE LET nb == [bks EXCEPT ![book_id] = b4]
              IN LibResult(nb, save_db(nb, file, w), "", TRUE)

\* delete_book on a save_db that lets the error of a failed write out
delete_book_lib_save_raises(bks, file, book_id, w) ==
  IF book_id \in DOMAIN bks
    THEN LET nb == [bid \in DOMAIN bks \ {book_id} |-> bks[bid]]
         IN IF w THEN LibResult(nb, save_db(nb, file, w), "", TRUE)
                 ELSE LibResult(nb, file, "OSError", FALSE)
    ELSE LibResult(bks, file, "KeyError", FALSE)

\* delete_book that deletes from a copy of the dict: the book stays
delete_book_lib_keeps(bks, file, book_id, w) ==
  IF book_id \in DOMAIN bks
    THEN LibResult(bks, save_db(bks, file, w), "", TRUE)
    ELSE LibResult(bks, file, "KeyError", FALSE)

delete_book_lib(bks, file, book_id, w) ==
  IF book_id \in DOMAIN bks
    THEN LET nb == [bid \in DOMAIN bks \ {book_id} |-> bks[bid]]
         IN LibResult(nb, save_db(nb, file, w), "", TRUE)
    ELSE LibResult(bks, file, "KeyError", FALSE)

\* borrow_book without the "copies > 0" test
borrow_book_unchecked(bks, file, book_id, w) ==
  IF book_id \notin DOMAIN bks
    THEN LibResult(bks, file, "KeyError", FALSE)
    ELSE LET nb == [bks EXCEPT ![book_id].copies = @ - 1]
         IN LibResult(nb, save_db(nb, file, w), "", TRUE)

borrow_book(bks, file, book_id, w) ==
  IF book_id \notin DOMAIN bks
    THEN LibResult(bks, file, "KeyError", FALSE)
  ELSE IF bks[book_id].copies > 0
    THEN LET nb == [bks EXCEPT ![book_id].copies = @ - 1]
         IN LibResult(nb, save_db(nb, file, w), "", TRUE)
  ELSE LibResult(bks, file, "", FALSE)

\* return_book that takes no more copies back than three
return_book_lib_capped(bks, file, book_id, w) ==
  IF book_id \notin DOMAIN bks
    THEN LibResult(bks, file, "KeyError", FALSE)
  ELSE IF bks[book_id].copies >= 3
    THEN LibResult(bks, file, "", TRUE)
  ELSE LET nb == [bks EXCEPT ![book_id].copies = @ + 1]
       IN LibResult(nb, save_db(nb, file, w), "", TRUE)

return_book_lib(bks, file, book_id, w) ==
  IF book_id \notin DOMAIN bks
    THEN LibResult(bks, file, "KeyError", FALSE)
    ELSE LET nb == [bks EXCEPT ![book_id].copies = @ + 1]
         IN LibResult(nb, save_db(nb, file, w), "", TRUE)

RECURSIVE values(_, _)
\* the books under the given ids, one after the other (the order of a dict
\* is the order of insertion, which the catalog as a map does not keep)
values(bks, ids) ==
  IF ids = {} THEN <<>>
  ELSE LET bid == CHOOSE b \in ids : TRUE
       IN <<bks[bid]>> \o values(bks, ids \ {bid})

list_books(bks) == values(bks, DOMAIN bks)

\* ------------------------------------------------- RequestQueue, HistoryStack
enqueue(q, req) == Append(q, req)
\* dequeue taking the newest request (pop instead of popleft)
dequeue_right(q) == [item |-> q[Len(q)], q |-> SubSeq(q, 1, Len(q) - 1)]
dequeue(q) == [item |-> Head(q), q |-> Tail(q)]
is_empty(q) == Len(q) = 0

\* push that puts the item under the stack instead of on it
push_under(stack, item) == <<item>> \o stack

push(stack, item) == Append(stack, item)
\* pop taking the oldest entry (pop(0))
pop_bottom(stack) == [item |-> Head(stack), stack |-> Tail(stack)]
pop(stack) == [item |-> stack[Len(stack)], stack |-> SubSeq(stack, 1, Len(stack) - 1)]

Request(request_id, book_id, user) ==
  [request_id |-> request_id, book_id |-> book_id, user |-> user]

\* history entries, one constructor per "action"
AddEntry(book) == [action |-> "add", book |-> book]
EditEntry(before, after) == [action |-> "edit", before |-> before, after |-> after]
DeleteEntry(book) == [action |-> "delete", book |-> book]
BorrowEntry(req) == [action |-> "borrow", req |-> req]
BorrowFailedEntry(req) == [action |-> "borrow_failed", req |-> req]
ReturnEntry(book_id) == [action |-> "return", book_id |-> book_id]
ErrorEntry(detail) == [action |-> "error", detail |-> detail]

\* ------------------------------------------------------------- book list
\* refresh_book_list: one line per book, the line starts with the id
display(b) == b.book_id \o <<"-", b.title>>
book_listbox == {display(books[bid]) : bid \in DOMAIN books}
\* line.split()[0]
selected_id(line) == <<Head(line)>>

\* ------------------------------------------------------ handlers, as effects
\* The state the handlers work on, and what a handler leaves behind: the
\* new state and the outcome it reports (message box or exception name).
Now == [books |-> books, db |-> db, queue |-> queue, history |-> history]

Out(bks, file, q, h, res, act) ==
  [books |-> bks, db |-> file, queue |-> q, history |-> h, res |-> res, act |-> act]

Same(st, res) == Out(st.books, st.db, st.queue, st.history, res, "")

\* add_book_dialog without the "ID sudah ada" test, on a library that
\* stores the book over the one it has
add_book_dialog_overwrites(st, bid, title, author, pages, copies, w) ==
  IF pages = Cancelled \/ copies = Cancelled THEN Same(st, "TypeError")
  ELSE
    LET book == Book(bid, title, author, pages, copies)
        nb == [b \in DOMAIN st.books \cup {bid} |->
                 IF b = bid THEN book ELSE st.books[b]]
    IN Out(nb, save_db(nb, st.db, w), st.queue,
           push(st.history, AddEntry(to_dict(book))), "added", "")

add_book_dialog(st, bid, title, author, pages, copies, w) ==
  IF bid \in DOMAIN st.books THEN Same(st, "DuplicateId")
  ELSE IF pages = Cancelled \/ copies = Cancelled THEN Same(st, "TypeError")
  ELSE
    LET book == Book(bid, title, author, pages, copies)
        r == add_book(st.books, st.db, book, w)
    IN IF r.raised # "" THEN Same(st, "DuplicateId")
       ELSE Out(r.books, r.db, st.queue,
                push(st.history, AddEntry(to_dict(book))), "added", "")

\* edit_book_dialog that takes the "before" snapshot after the update
edit_book_dialog_late_snapshot(st, line, new_title, new_author, new_pages, new_copies, w) ==
  LET bid == selected_id(line) IN
  IF bid \notin DOMAIN st.books THEN Same(st, "NotFound")
  ELSE
    LET r == update_book(st.books, st.db, bid, new_title, new_author,
                         new_pages, new_copies, w)
    IN IF r.raised # "" THEN Out(r.books, r.db, st.queue, st.history, r.raised, "")
       ELSE Out(r.books, r.db, st.queue,
                push(st.history, EditEntry(to_dict(r.books[bid]), to_dict(r.books[bid]))),
                "edited", "")

edit_book_dialog(st, line, new_title, new_author, new_pages, new_copies, w) ==
  LET bid == selected_id(line) IN
  IF bid \notin DOMAIN st.books THEN Same(st, "NotFound")
  ELSE
    LET old == to_dict(st.books[bid])
        r == update_book(st.books, st.db, bid, new_title, new_author,
                         new_pages, new_copies, w)
    IN IF r.raised # "" THEN Out(r.books, r.db, st.queue, st.history, r.raised, "")
       ELSE Out(r.books, r.db, st.queue,
                push(st.history, EditEntry(old, to_dict(r.books[bid]))),
                "edited", "")

\* delete_book that also drops the waiting requests for the deleted book
delete_book_purges_queue(st, line, w) ==
  LET bid == selected_id(line) IN
  IF bid \notin DOMAIN st.books THEN Same(st, "NotFound")
  ELSE
    LET book_dict == to_dict(st.books[bid])
        r == delete_book_lib(st.books, st.db, bid, w)
    IN IF r.raised # "" THEN Same(st, "NotFound")
       ELSE Out(r.books, r.db, SelectSeq(st.queue, LAMBDA req : req.book_id # bid),
                push(st.history, DeleteEntry(book_dict)), "deleted", "")

delete_book(st, line, w) ==
  LET bid == selected_id(line) IN
  IF bid \notin DOMAIN st.books THEN Same(st, "NotFound")
  ELSE
    LET book_dict == to_dict(st.books[bid])
        r == delete_book_lib(st.books, st.db, bid, w)
    IN IF r.raised # "" THEN Same(st, "NotFound")
       ELSE Out(r.books, r.db, st.queue,
                push(st.history, DeleteEntry(book_dict)), "deleted", "")

borrow_enqueue(st, v, line, user, now) ==
  LET bid == selected_id(line)
      req == Request(now, bid, user)
  IN IF v = "apipi" /\ bid \notin DOMAIN st.books THEN Same(st, "NotFound")
     ELSE IF v = "apipi" /\ st.books[bid].copies <= 0 THEN Same(st, "NoCopies")
     ELSE Out(st.books, st.db, enqueue(st.queue, req), st.history, "queued", "")

\* process_one_request that, once a copy is lent, drops the other waiting
\* requests for the same book
process_one_request_dedups(st, w) ==
  IF is_empty(st.queue) THEN Same(st, "QueueEmpty")
  ELSE
    LET d == dequeue(st.queue)
        req == d.item
        r == borrow_book(st.books, st.db, req.book_id, w)
    IN IF r.raised # "" THEN Out(st.books, st.db, d.q, st.history, "NotFound", "")
       ELSE IF r.value
         THEN Out(r.books, r.db,
                  SelectSeq(d.q, LAMBDA other : other.book_id # req.book_id),
                  push(st.history, BorrowEntry(req)), "borrow", "")
       ELSE Out(r.books, r.db, d.q, push(st.history, BorrowFailedEntry(req)),
                "borrow_failed", "")

\* process_one_request putting a request that found no copy back in the queue
process_one_request_requeue(st, w) ==
  IF Len(st.queue) = 0 THEN Same(st, "QueueEmpty")
  ELSE
    LET req == Head(st.queue)
        r == borrow_book(st.books, st.db, req.book_id, w)
    IN IF r.raised # "" THEN Out(st.books, st.db, Tail(st.queue), st.history, "NotFound", "")
       ELSE IF r.value
         THEN Out(r.books, r.db, Tail(st.queue),
                  Append(st.history, BorrowEntry(req)), "borrow", "")
       ELSE Out(r.books, r.db, Append(Tail(st.queue), req),
                Append(st.history, BorrowFailedEntry(req)), "borrow_failed", "")

\* process_one_request that records a borrow also for a book that is gone
process_one_request_records_missing(st, w) ==
  IF Len(st.queue) = 0 THEN Same(st, "QueueEmpty")
  ELSE
    LET req == Head(st.queue)
        r == borrow_book(st.books, st.db, req.book_id, w)
    IN IF r.raised # ""
         THEN Out(st.books, st.db, Tail(st.queue),
                  Append(st.history, BorrowEntry(req)), "NotFound", "")
       ELSE IF r.value
         THEN Out(r.books, r.db, Tail(st.queue),
                  Append(st.history, BorrowEntry(req)), "borrow", "")
       ELSE Out(r.books, r.db, Tail(st.queue),
                Append(st.history, BorrowFailedEntry(req)), "borrow_failed", "")

process_one_request(st, w) ==
  IF is_empty(st.queue) THEN Same(st, "QueueEmpty")
  ELSE
    LET d == dequeue(st.queue)
        req == d.item
        r == borrow_book(st.books, st.db, req.book_id, w)
    IN IF r.raised # "" THEN Out(st.books, st.db, d.q, st.history, "NotFound", "")
       ELSE IF r.value
         THEN Out(r.books, r.db, d.q, push(st.history, BorrowEntry(req)), "borrow", "")
       ELSE Out(r.books, r.db, d.q, push(st.history, BorrowFailedEntry(req)),
                "borrow_failed", "")

\* process_queue_worker recording a tick that found the queue empty
process_queue_worker_logs_idle(st, w) ==
  IF Len(st.queue) = 0
    THEN Out(st.books, st.db, st.queue,
             Append(st.history, ErrorEntry("queue empty")), "QueueEmpty", "")
  ELSE
    LET req == Head(st.queue)
        r == borrow_book(st.books, st.db, req.book_id, w)
    IN IF r.raised # ""
         THEN Out(st.books, st.db, Tail(st.queue),
                  Append(st.history, ErrorEntry("'Book not found.'")), "NotFound", "")
       ELSE IF r.value
         THEN Out(r.books, r.db, Tail(st.queue),
                  Append(st.history, BorrowEntry(req)), "borrow", "")
       ELSE Out(r.books, r.db, Tail(st.queue),
                Append(st.history, BorrowFailedEntry(req)), "borrow_failed", "")

process_queue_worker(st, w) ==
  IF is_empty(st.queue) THEN Same(st, "QueueEmpty")
  ELSE
    LET d == dequeue(st.queue)
        req == d.item
        r == borrow_book(st.books, st.db, req.book_id, w)
    IN IF r.raised # ""
         THEN Out(st.books, st.db, d.q,
                  push(st.history, ErrorEntry("'Book not found.'")), "NotFound", "")
       ELSE IF r.value
         THEN Out(r.books, r.db, d.q, push(st.history, BorrowEntry(req)), "borrow", "")
       ELSE Out(r.books, r.db, d.q, push(st.history, BorrowFailedEntry(req)),
                "borrow_failed", "")

\* return_book that records the return of a listed book and gives no copy back
return_book_records_only(st, line, w) ==
  LET bid == selected_id(line)
  IN IF bid \notin DOMAIN st.books THEN Same(st, "NotFound")
     ELSE Out(st.books, st.db, st.queue, Append(st.history, ReturnEntry(bid)),
              "returned", "")

return_book(st, line, w) ==
  LET bid == selected_id(line)
      r == return_book_lib(st.books, st.db, bid, w)
  IN IF r.raised # "" THEN Same(st, "NotFound")
     ELSE Out(r.books, r.db, st.queue, push(st.history, ReturnEntry(bid)),
              "returned", "")

\* undo_entry that restores the copies of an edited book and keeps the
\* title, the author and the pages it has now
undo_entry_restores_copies_only(bks, file, item, w) ==
  IF item.action = "add" THEN
    IF item.book.book_id \in DOMAIN bks
      THEN delete_book_lib(bks, file, item.book.book_id, w)
      ELSE LibResult(bks, file, "", TRUE)
  ELSE IF item.action = "delete" THEN
    add_book(bks, file, from_dict(item.book), w)
  ELSE IF item.action = "edit" THEN
    IF item.before.book_id \in DOMAIN bks
      THEN update_book(bks, file, item.before.book_id,
                       bks[item.before.book_id].title,
                       bks[item.before.book_id].author,
                       bks[item.before.book_id].pages, item.before.copies, w)
      ELSE LibResult(bks, file, "KeyError", FALSE)
  ELSE IF item.action = "borrow" THEN
    return_book_lib(bks, file, item.req.book_id, w)
  ELSE IF item.action = "borrow_failed" THEN
    LibResult(bks, file, "", TRUE)
  ELSE IF item.action = "return" THEN
    IF item.book_id \notin DOMAIN bks THEN LibResult(bks, file, "KeyError", FALSE)
    ELSE IF bks[item.book_id].copies > 0
      THEN LET nb == [bks EXCEPT ![item.book_id].copies = @ - 1]
           IN LibResult(nb, save_db(nb, file, w), "", TRUE)
    ELSE LibResult(bks, file, "", TRUE)
  ELSE LibResult(bks, file, "", TRUE)

\* undo_entry that deletes the added book without looking for it first
undo_entry_deletes_unseen(bks, file, item, w) ==
  IF item.action = "add" THEN
    delete_book_lib(bks, file, item.book.book_id, w)
  ELSE IF item.action = "delete" THEN
    add_book(bks, file, from_dict(item.book), w)
  ELSE IF item.action = "edit" THEN
    update_book(bks, file, item.before.book_id, item.before.title,
                item.before.author, item.before.pages, item.before.copies, w)
  ELSE IF item.action = "borrow" THEN
    return_book_lib(bks, file, item.req.book_id, w)
  ELSE IF item.action = "borrow_failed" THEN
    LibResult(bks, file, "", TRUE)
  ELSE IF item.action = "return" THEN
    IF item.book_id \notin DOMAIN bks THEN LibResult(bks, file, "KeyError", FALSE)
    ELSE IF bks[item.book_id].copies > 0
      THEN LET nb == [bks EXCEPT ![item.book_id].copies = @ - 1]
           IN LibResult(nb, save_db(nb, file, w), "", TRUE)
    ELSE LibResult(bks, file, "", TRUE)
  ELSE LibResult(bks, file, "", TRUE)

\* undo_entry that takes a failed borrow for a borrow: a copy is given back
undo_entry_returns_failed(bks, file, item, w) ==
  IF item.action = "add" THEN
    IF item.book.book_id \in DOMAIN bks
      THEN delete_book_lib(bks, file, item.book.book_id, w)
      ELSE LibResult(bks, file, "", TRUE)
  ELSE IF item.action = "delete" THEN
    add_book(bks, file, from_dict(item.book), w)
  ELSE IF item.action = "edit" THEN
    update_book(bks, file, item.before.book_id, item.before.title,
                item.before.author, item.before.pages, item.before.copies, w)
  ELSE IF item.action \in {"borrow", "borrow_failed"} THEN
    return_book_lib(bks, file, item.req.book_id, w)
  ELSE IF item.action = "return" THEN
    IF item.book_id \notin DOMAIN bks THEN LibResult(bks, file, "KeyError", FALSE)
    ELSE IF bks[item.book_id].copies > 0
      THEN LET nb == [bks EXCEPT ![item.book_id].copies = @ - 1]
           IN LibResult(nb, save_db(nb, file, w), "", TRUE)
    ELSE LibResult(bks, file, "", TRUE)
  ELSE LibResult(bks, file, "", TRUE)

\* undo_entry that takes a return entry for an unknown action: nothing is
\* taken back
undo_entry_ignores_return(bks, file, item, w) ==
  IF item.action = "add" THEN
    IF item.book.book_id \in DOMAIN bks
      THEN delete_book_lib(bks, file, item.book.book_id, w)
      ELSE LibResult(bks, file, "", TRUE)
  ELSE IF item.action = "delete" THEN
    add_book(bks, file, from_dict(item.book), w)
  ELSE IF item.action = "edit" THEN
    update_book(bks, file, item.before.book_id, item.before.title,
                item.before.author, item.before.pages, item.before.copies, w)
  ELSE IF item.action = "borrow" THEN
    return_book_lib(bks, file, item.req.book_id, w)
  ELSE LibResult(bks, file, "", TRUE)

\* undo_entry with nothing done for a "borrow" entry
undo_entry_keeps_borrow(bks, file, item, w) ==
  IF item.action = "add" THEN
    IF item.book.book_id \in DOMAIN bks
      THEN delete_book_lib(bks, file, item.book.book_id, w)
      ELSE LibResult(bks, file, "", TRUE)
  ELSE IF item.action = "delete" THEN
    add_book(bks, file, from_dict(item.book), w)
  ELSE IF item.action = "edit" THEN
    update_book(bks, file, item.before.book_id, item.before.title,
                item.before.author, item.before.pages, item.before.copies, w)
  ELSE IF item.action = "return" THEN
    IF item.book_id \notin DOMAIN bks THEN LibResult(bks, file, "KeyError", FALSE)
    ELSE IF bks[item.book_id].copies > 0
      THEN LET nb == [bks EXCEPT ![item.book_id].copies = @ - 1]
           IN LibResult(nb, save_db(nb, file, w), "", TRUE)
    ELSE LibResult(bks, file, "", TRUE)
  ELSE LibResult(bks, file, "", TRUE)

\* the reversal of one popped entry: new catalog, new file, exception name
undo_entry(bks, file, item, w) ==
  IF item.action = "add" THEN
    IF item.book.book_id \in DOMAIN bks
      THEN delete_book_lib(bks, file, item.book.book_id, w)
      ELSE LibResult(bks, file, "", TRUE)
  ELSE IF item.action = "delete" THEN
    add_book(bks, file, from_dict(item.book), w)
  ELSE IF item.action = "edit" THEN
    update_book(bks, file, item.before.book_id, item.before.title,
                item.before.author, item.before.pages, item.before.copies, w)
  ELSE IF item.action = "borrow" THEN
    return_book_lib(bks, file, item.req.book_id, w)
  ELSE IF item.action = "borrow_failed" THEN
    LibResult(bks, file, "", TRUE)
  ELSE IF item.action = "return" THEN
    IF item.book_id \notin DOMAIN bks THEN LibResult(bks, file, "KeyError", FALSE)
    ELSE IF bks[item.book_id].copies > 0
      THEN LET nb == [bks EXCEPT ![item.book_id].copies = @ - 1]
           IN LibResult(nb, save_db(nb, file, w), "", TRUE)
    ELSE LibResult(bks, file, "", TRUE)
  ELSE LibResult(bks, file, "", TRUE)

\* undo_last without the "nothing to undo" test: the last entry stays
undo_last_unchecked(st, w) ==
  IF Len(st.history) = 0 THEN Same(st, "undone")
  ELSE
    LET p == pop(st.history)
        r == undo_entry(st.books, st.db, p.item, w)
        res == IF r.raised = "" THEN "undone"
               ELSE IF r.raised = "ValueError" THEN "DuplicateId"
               ELSE "NotFound"
    IN Out(r.books, r.db, st.queue, p.stack, res, p.item.action)

undo_last(st, w) ==
  IF Len(st.history) = 0 THEN Same(st, "NothingToUndo")
  ELSE
    LET p == pop(st.history)
        r == undo_entry(st.books, st.db, p.item, w)
        res == IF r.raised = "" THEN "undone"
               ELSE IF r.raised = "ValueError" THEN "DuplicateId"
               ELSE "NotFound"
    IN Out(r.books, r.db, st.queue, p.stack, res, p.item.action)

\* ------------------------------------------- status-based library (apo.py)
\* src/apo.py is a program of its own: a list of Book objects, a deque of
\* loan requests and a list used as undo stack.  Book has no __eq__, so
\* list.remove compares by identity: the objects live in a heap and the
\* lists hold their addresses (heap is a sequence, the address of an object
\* is its position).  Python's list positions start at 0, the positions
\* below start at 1.  The state record holds, next to the fields of
\* LibraryApp, the rows of the Treeview as refresh_tree left them, the
\* contents of library_db.json and the outcome of the last handler.
apo_Book(title, author, year, status) ==
  [title |-> title, author |-> author, year |-> year, status |-> status]

\* a library_db.json left by an earlier run
apo_saved ==
  << apo_Book("Laskar Pelangi", "Andrea Hirata", "2005", "Tersedia"),
     apo_Book("Bumi", "Tere Liye", "2014", "Tersedia") >>

\* the values of the listed books, in the order of the list
apo_rows(a) == [i \in 1..Len(a.books) |-> a.heap[a.books[i]]]

apo_refresh_tree(a) == [a EXCEPT !.tree = apo_rows(a)]

apo_save_database(a) == [a EXCEPT !.file = apo_rows(a)]

\* __init__: load_database appends one new Book per stored record (nothing
\* when the file is missing), then refresh_tree
apo_LibraryApp(file) ==
  apo_refresh_tree(
    [heap |-> file, books |-> [i \in 1..Len(file) |-> i], loan_queue |-> <<>>,
     undo_stack |-> <<>>, tree |-> <<>>, file |-> file, res |-> "init"])

\* the first book whose title is the one of the selected row; 0 is None
apo_get_selected_book_index(a, row) ==
  IF row \notin 1..Len(a.tree) THEN 0
  ELSE LET title == a.tree[row].title
           found == {i \in 1..Len(a.books) : a.heap[a.books[i]].title = title}
       IN IF found = {} THEN 0
          ELSE CHOOSE i \in found : \A j \in found : i <= j

apo_add_book(a, title, author, year) ==
  IF title = "" \/ author = "" \/ year = "" THEN [a EXCEPT !.res = "Warning"]
  ELSE
    LET new_book == Len(a.heap) + 1
    IN apo_save_database(apo_refresh_tree(
         [a EXCEPT !.heap = Append(@, apo_Book(title, author, year, "Tersedia")),
                   !.books = Append(@, new_book),
                   !.undo_stack = Append(@, <<"delete", new_book>>),
                   !.res = "added"]))

apo_edit_book(a, row, title, author, year) ==
  LET idx == apo_get_selected_book_index(a, row) IN
  IF idx = 0 THEN [a EXCEPT !.res = "none"]
  ELSE
    LET old_book == a.books[idx]
        backup == Len(a.heap) + 1
    IN apo_save_database(apo_refresh_tree(
         [a EXCEPT !.heap = Append([@ EXCEPT ![old_book].title = title,
                                             ![old_book].author = author,
                                             ![old_book].year = year],
                                   a.heap[old_book]),
                   !.undo_stack = Append(@, <<"edit", idx, backup>>),
                   !.res = "edited"]))

\* list.pop(idx)
apo_pop_at(list, idx) ==
  SubSeq(list, 1, idx - 1) \o SubSeq(list, idx + 1, Len(list))

apo_delete_book(a, row) ==
  LET idx == apo_get_selected_book_index(a, row) IN
  IF idx = 0 THEN [a EXCEPT !.res = "none"]
  ELSE
    LET removed == a.books[idx]
    IN apo_save_database(apo_refresh_tree(
         [a EXCEPT !.books = apo_pop_at(@, idx),
                   !.undo_stack = Append(@, <<"add", removed>>),
                   !.res = "deleted"]))

apo_request_loan(a, row) ==
  LET idx == apo_get_selected_book_index(a, row) IN
  IF idx = 0 THEN [a EXCEPT !.res = "none"]
  ELSE
    LET book == a.books[idx]
    IN IF a.heap[book].status = "Dipinjam" THEN [a EXCEPT !.res = "Gagal"]
       ELSE [a EXCEPT !.loan_queue = Append(@, book), !.res = "Berhasil"]

apo_process_queue(a) ==
  IF a.loan_queue = <<>> THEN [a EXCEPT !.res = "Info"]
  ELSE
    LET book == Head(a.loan_queue)
    IN apo_save_database(apo_refresh_tree(
         [a EXCEPT !.loan_queue = Tail(@),
                   !.heap[book].status = "Dipinjam",
                   !.undo_stack = Append(@, <<"return", book>>),
                   !.res = "Diproses"]))

\* list.remove(x): drops the first position that holds the object x
apo_remove(list, x) ==
  apo_pop_at(list, CHOOSE i \in 1..Len(list) :
                     /\ list[i] = x
                     /\ \A j \in 1..(i - 1) : list[j] # x)

\* an exception inside the handler ends it after the pop: the tree and the
\* file are not brought up to date
apo_undo_action(a) ==
  IF a.undo_stack = <<>> THEN [a EXCEPT !.res = "Info"]
  ELSE
    LET action == a.undo_stack[Len(a.undo_stack)]
        popped == [a EXCEPT !.undo_stack = SubSeq(@, 1, Len(@) - 1)]
        done(b) == apo_save_database(apo_refresh_tree([b EXCEPT !.res = "undone"]))
    IN IF action[1] = "delete" THEN
         IF \E i \in 1..Len(a.books) : a.books[i] = action[2]
           THEN done([popped EXCEPT !.books = apo_remove(@, action[2])])
           ELSE [popped EXCEPT !.res = "ValueError"]
       ELSE IF action[1] = "add" THEN
         done([popped EXCEPT !.books = Append(@, action[2])])
       ELSE IF action[1] = "edit" THEN
         IF action[2] \in 1..Len(a.books)
           THEN done([popped EXCEPT !.books[action[2]] = action[3]])
           ELSE [popped EXCEPT !.res = "IndexError"]
       ELSE done([popped EXCEPT !.heap[action[2]].status = "Tersedia"])

\* ------------------------------------------------- translator (opo.py)
\* src/opo.py is a program of its own: a dictionary translator with a FIFO
\* queue of requests that a worker, rescheduled every 250 ms, takes one at a
\* time, and a LIFO history.  A text is the sequence of its words, which is
\* what text.split() gives and what " ".join puts together again; the words
\* tried carry no punctuation.  The state record holds the deque of
\* RequestQueue, the list of HistoryStack, the lines of the output box, the
\* number of pending root.after(queue_worker) callbacks, time.time() counted
\* in the requests made so far, and the handler that ran last with what it
\* reported; "processed" collects the time stamps of the requests the
\* worker has taken.  The history listbox is not modelled.
opo_id_en == ("makan" :> "eat") @@ ("buku" :> "book")

\* load_dictionary: the reverse mapping
opo_en_id == [v \in {opo_id_en[k] : k \in DOMAIN opo_id_en} |->
                CHOOSE k \in DOMAIN opo_id_en : opo_id_en[k] = v]

\* str.lower, str.istitle and str.capitalize on the words tried
opo_lower(word) == IF word = "Buku" THEN "buku" ELSE word
opo_istitle(word) == word = "Buku"
opo_capitalize(word) ==
  IF word = "book" THEN "Book" ELSE IF word = "buku" THEN "Buku" ELSE word

\* the word without the first suffix of the list that it ends with and that
\* leaves a word of the dictionary ("" when there is none)
opo_stem(w) == IF w = "bukumu" THEN "buku" ELSE ""

opo_translate_word_id_to_en(word) ==
  IF word = "" THEN word
  ELSE LET w == opo_lower(word)
       IN IF w \in DOMAIN opo_id_en THEN opo_id_en[w]
          ELSE IF opo_stem(w) \in DOMAIN opo_id_en THEN opo_id_en[opo_stem(w)]
          ELSE "[" \o word \o "]"

opo_translate_word_en_to_id(word) ==
  IF word = "" THEN word
  ELSE LET w == opo_lower(word)
       IN IF w \in DOMAIN opo_en_id THEN opo_en_id[w]
          ELSE "[" \o word \o "]"

opo_translate_text(text, src_lang, tgt_lang) ==
  IF src_lang = tgt_lang THEN text
  ELSE
    [i \in 1..Len(text) |->
       LET core == text[i]
           translated_core ==
             IF src_lang = "Indonesian" /\ tgt_lang = "English"
               THEN opo_translate_word_id_to_en(core)
             ELSE IF src_lang = "English" /\ tgt_lang = "Indonesian"
               THEN opo_translate_word_en_to_id(core)
             ELSE core
       IN IF translated_core = "[" \o core \o "]" THEN translated_core
          ELSE IF opo_istitle(core) THEN opo_capitalize(translated_core)
          ELSE translated_core]

\* RequestQueue
opo_enqueue(q, req) == Append(q, req)
opo_dequeue(q) == [item |-> Head(q), q |-> Tail(q)]
opo_is_empty(q) == Len(q) = 0

\* HistoryStack
opo_push(stack, item) == Append(stack, item)
opo_pop(stack) == SubSeq(stack, 1, Len(stack) - 1)
opo_peek(stack) == stack[Len(stack)]

opo_req(text, src, tgt, time) ==
  [text |-> text, src |-> src, tgt |-> tgt, time |-> time]

opo_hist(original, translated, src, tgt, time) ==
  [original |-> original, translated |-> translated, src |-> src, tgt |-> tgt,
   time |-> time]

\* __init__: empty queue and history, the worker scheduled once
opo_TranslatorApp ==
  [q |-> <<>>, stack |-> <<>>, output |-> <<>>, pending |-> 1, time |-> 0,
   processed |-> {}, op |-> "init", res |-> ""]

opo_enqueue_translate(o, text, src, tgt) ==
  IF text = <<>> THEN [o EXCEPT !.op = "enqueue_translate", !.res = "Info"]
  ELSE [o EXCEPT !.q = opo_enqueue(@, opo_req(text, src, tgt, o.time + 1)),
                 !.time = @ + 1,
                 !.op = "enqueue_translate", !.res = "Queued"]

opo_translate_now(o, text, src, tgt) ==
  IF text = <<>> THEN [o EXCEPT !.op = "translate_now", !.res = "Info"]
  ELSE IF src = tgt THEN [o EXCEPT !.op = "translate_now", !.res = "Warning"]
  ELSE
    LET translated == opo_translate_text(text, src, tgt)
    IN [o EXCEPT !.stack = opo_push(@, opo_hist(text, translated, src, tgt, o.time + 1)),
                 !.time = @ + 1,
                 !.output = translated,
                 !.op = "translate_now", !.res = "translated"]

opo_undo(o) ==
  IF o.stack = <<>> THEN [o EXCEPT !.op = "undo", !.res = "Info"]
  ELSE
    LET rest == opo_pop(o.stack)
    IN [o EXCEPT !.stack = rest,
                 !.output = IF rest # <<>> THEN opo_peek(rest).translated ELSE <<>>,
                 !.op = "undo", !.res = "undone"]

\* yes is the answer to the question of the dialog
opo_clear_all(o, yes) ==
  IF yes
    THEN [o EXCEPT !.q = <<>>, !.stack = <<>>, !.output = <<>>,
                   !.op = "clear_all", !.res = "cleared"]
    ELSE [o EXCEPT !.op = "clear_all", !.res = "kept"]

\* queue_worker that ends without root.after when it finds the queue empty
opo_queue_worker_stops_when_idle(o) ==
  IF Len(o.q) = 0
    THEN [o EXCEPT !.pending = @ - 1, !.op = "queue_worker", !.res = "idle"]
  ELSE
    LET req == Head(o.q)
        translated == opo_translate_text(req.text, req.src, req.tgt)
    IN [o EXCEPT !.q = Tail(@),
                 !.stack = Append(@, opo_hist(req.text, translated, req.src,
                                              req.tgt, req.time)),
                 !.output = IF @ # <<>>
                              THEN @ \o <<"--- Queued Translation ---">> \o translated
                              ELSE translated,
                 !.processed = @ \cup {req.time},
                 !.op = "queue_worker", !.res = "processed"]

\* the callback fires (one pending callback less); the last statement is
\* root.after (one more)
opo_queue_worker(o) ==
  IF opo_is_empty(o.q)
    THEN [o EXCEPT !.pending = (@ - 1) + 1, !.op = "queue_worker", !.res = "idle"]
  ELSE
    LET d == opo_dequeue(o.q)
        req == d.item
        translated == IF req.src = req.tgt THEN req.text
                      ELSE opo_translate_text(req.text, req.src, req.tgt)
    IN [o EXCEPT !.q = d.q,
                 !.stack = opo_push(@, opo_hist(req.text, translated, req.src,
                                                req.tgt, req.time)),
                 !.output = IF @ # <<>>
                              THEN @ \o <<"--- Queued Translation ---">> \o translated
                              ELSE translated,
                 !.processed = @ \cup {req.time},
                 !.pending = (@ - 1) + 1,
                 !.op = "queue_worker", !.res = "processed"]

\* ------------------------------- memory games (MemoryGame.py, RemiCard.py)
\* Three programs of their own, each a class MemoryGame: the number game of
\* src/MemoryGame.py ("MemoryGame"), the playing card game that is the first
\* program of src/RemiCard.py ("RemiCard") and the timed number game that is
\* its second program ("Fiks").  A card is a position 1..2*Pairs (Python
\* counts from 0); the card game shows images where the others show
\* numbers, and its card names are counted 1..Pairs here.  A button holds
\* its text (0 stands for "?", or for the image of the back), its colour and
\* whether it is disabled.  The state record holds the fields of MemoryGame
\* and, with them, the numbers of pending root.after callbacks of
\* check_match ("checks") and of update_timer ("timers") and the handler
\* that ran last with what it reported.  The program has 8 pairs and 120
\* seconds; Pairs and StartSeconds stand for them.
GameKinds == {"MemoryGame", "RemiCard", "Fiks"}

CLOSED == "#3a4a78"
OPEN == "#1f7be8"
MATCH == "#13b357"

Cards == 1..(2 * Pairs)

\* list(range(1, 9)) * 2, before it is shuffled
Dealt == [i \in Cards |-> ((i - 1) % Pairs) + 1]

\* the outcomes of random.shuffle: every value lies on two cards
Shuffles ==
  {s \in [Cards -> 1..Pairs] :
     \A v \in 1..Pairs : Cardinality({i \in Cards : s[i] = v}) = 2}

game_button(text, bg, state) == [text |-> text, bg |-> bg, state |-> state]

\* Stack and Queue
game_push(items, item) == Append(items, item)
game_pop(items) == [item |-> items[Len(items)], items |-> SubSeq(items, 1, Len(items) - 1)]
game_enqueue(items, item) == Append(items, item)
game_size(items) == Len(items)

\* the colour a button gets: the card game changes images only
game_bg(g, colour) == IF g.kind = "RemiCard" THEN CLOSED ELSE colour

game_over(g) ==
  [g EXCEPT !.buttons = [i \in Cards |-> [g.buttons[i] EXCEPT !.state = "disabled"]],
            !.res = "GAME OVER"]

\* the body of update_timer; its last statement is root.after
update_timer(g) ==
  IF ~g.timer_running THEN g
  ELSE IF g.time_seconds = 0 THEN game_over([g EXCEPT !.timer_running = FALSE])
  ELSE [g EXCEPT !.time_seconds = @ - 1, !.timers = @ + 1]

start_timer(g) ==
  IF ~g.timer_running THEN update_timer([g EXCEPT !.timer_running = TRUE]) ELSE g

\* __init__: the cards are shuffled and lie face down; the timed game
\* starts its timer
MemoryGame(kind, numbers) ==
  LET g == [kind |-> kind, numbers |-> numbers,
            buttons |-> [i \in Cards |-> game_button(0, CLOSED, "normal")],
            opened_cards |-> <<>>, stack_history |-> <<>>, queue_finish |-> <<>>,
            score |-> 0, steps |-> 0, history_score |-> <<>>, history_steps |-> <<>>,
            time_seconds |-> IF kind = "Fiks" THEN StartSeconds ELSE 0,
            timer_running |-> FALSE, checks |-> 0, timers |-> 0,
            op |-> "init", res |-> ""]
  IN IF kind = "Fiks" THEN start_timer(g) ELSE g

open_card(g, index) ==
  LET h == [g EXCEPT !.op = "open_card", !.res = "ignored"] IN
  IF g.kind = "Fiks" /\ ~g.timer_running THEN h
  ELSE IF Len(g.opened_cards) = 2
    THEN [h EXCEPT !.res = IF g.kind = "RemiCard" THEN "ignored" ELSE "Peringatan"]
  ELSE IF g.buttons[index].text # 0 THEN h
  ELSE
    LET o == [h EXCEPT !.buttons[index].text = g.numbers[index],
                       !.buttons[index].bg = game_bg(g, OPEN),
                       !.opened_cards = Append(@, index),
                       !.stack_history = game_push(@, index),
                       !.res = "opened"]
    IN IF Len(o.opened_cards) = 2
         THEN [o EXCEPT !.steps = @ + 1, !.checks = @ + 1]
         ELSE o

\* the callback fires (one pending callback less); "i1, i2 = opened_cards"
\* raises ValueError unless the list holds two positions
check_match(g) ==
  LET h == [g EXCEPT !.checks = @ - 1, !.op = "check_match"] IN
  IF Len(g.opened_cards) # 2 THEN [h EXCEPT !.res = "ValueError"]
  ELSE
    LET i1 == g.opened_cards[1]
        i2 == g.opened_cards[2]
        k == IF g.kind = "Fiks"
               THEN [h EXCEPT !.history_score = Append(@, g.score),
                              !.history_steps = Append(@, g.steps)]
               ELSE h
        m == IF g.numbers[i1] = g.numbers[i2]
               THEN [k EXCEPT !.buttons[i1].bg = game_bg(g, MATCH),
                              !.buttons[i2].bg = game_bg(g, MATCH),
                              !.queue_finish = game_enqueue(@, g.numbers[i1]),
                              !.score = @ + 10,
                              !.res = "match"]
               ELSE [k EXCEPT !.buttons[i1] = [@ EXCEPT !.text = 0, !.bg = CLOSED],
                              !.buttons[i2] = [@ EXCEPT !.text = 0, !.bg = CLOSED],
                              !.score = IF @ - 2 > 0 THEN @ - 2 ELSE 0,
                              !.res = "no match"]
        n == [m EXCEPT !.opened_cards = <<>>]
    IN IF game_size(n.queue_finish) = Pairs
         THEN [n EXCEPT !.timer_running = IF g.kind = "Fiks" THEN FALSE ELSE @,
                        !.res = "Selesai!"]
         ELSE n

\* undo_move of the number game and of the card game: the card opened last
\* is turned face down; opened_cards and queue_finish are not touched
undo_move_plain(g) ==
  LET h == [g EXCEPT !.op = "undo_move"] IN
  IF g.stack_history = <<>>
    THEN [h EXCEPT !.res = IF g.kind = "RemiCard" THEN "ignored" ELSE "Undo"]
  ELSE
    LET p == game_pop(g.stack_history)
    IN [h EXCEPT !.stack_history = p.items,
                 !.buttons[p.item] = [@ EXCEPT !.text = 0, !.bg = CLOSED],
                 !.res = "undone"]

\* list.remove(x), for a list that holds x
game_remove(list, x) ==
  LET first == CHOOSE i \in 1..Len(list) :
                 /\ list[i] = x
                 /\ \A j \in 1..(i - 1) : list[j] # x
  IN SubSeq(list, 1, first - 1) \o SubSeq(list, first + 1, Len(list))

\* undo_move of the timed game
undo_move_timed(g) ==
  LET h == [g EXCEPT !.op = "undo_move"] IN
  IF g.stack_history = <<>> THEN [h EXCEPT !.res = "Undo"]
  ELSE
    LET p == game_pop(g.stack_history)
        last_index == p.item
        popped == [h EXCEPT !.stack_history = p.items]
        closed == [popped EXCEPT !.buttons[last_index] = [@ EXCEPT !.text = 0, !.bg = CLOSED]]
    IN IF g.buttons[last_index].bg = MATCH THEN [popped EXCEPT !.res = "Undo"]
       ELSE IF Len(g.opened_cards) = 1 THEN
         IF g.opened_cards[1] = last_index
           THEN [closed EXCEPT !.opened_cards = <<>>, !.res = "undone"]
           ELSE [closed EXCEPT !.res = "ValueError"]
       ELSE
         LET r == IF g.history_score # <<>> /\ g.history_steps # <<>>
                    THEN [closed EXCEPT
                            !.score = g.history_score[Len(g.history_score)],
                            !.steps = g.history_steps[Len(g.history_steps)],
                            !.history_score = SubSeq(@, 1, Len(@) - 1),
                            !.history_steps = SubSeq(@, 1, Len(@) - 1)]
                    ELSE closed
         IN [r EXCEPT !.opened_cards =
                        IF \E i \in 1..Len(@) : @[i] = last_index
                          THEN game_remove(@, last_index) ELSE @,
                      !.res = "undone"]

undo_move(g) ==
  IF g.kind = "Fiks" THEN undo_move_timed(g) ELSE undo_move_plain(g)

\* numbers is the outcome of random.shuffle; the callbacks that are pending
\* stay pending
restart_game(g, numbers) ==
  LET h == [g EXCEPT !.score = 0, !.steps = 0, !.opened_cards = <<>>,
                     !.stack_history = <<>>, !.queue_finish = <<>>,
                     !.numbers = numbers,
                     !.op = "restart_game", !.res = "restarted"]
  IN IF g.kind = "Fiks"
       THEN update_timer(
              [h EXCEPT !.history_score = <<>>, !.history_steps = <<>>,
                        !.buttons = [i \in Cards |-> game_button(0, CLOSED, "normal")],
                        !.time_seconds = StartSeconds,
                        !.timer_running = TRUE])
       ELSE [h EXCEPT !.buttons = [i \in Cards |->
                                     [g.buttons[i] EXCEPT !.text = 0, !.bg = CLOSED]]]

\* the update_timer callback fires (one pending callback less)
timer_callback(g) ==
  update_timer([g EXCEPT !.timers = @ - 1, !.op = "update_timer", !.res = ""])

\* handlers that push the Book object itself as the "after" of an edit:
\* the stored entry follows every later change of the book
Do_entries_follow_books(op, eff) ==
  /\ books' = eff.books
  /\ db' = eff.db
  /\ queue' = eff.queue
  /\ history' = [i \in 1..Len(eff.history) |->
                   IF /\ eff.history[i].action = "edit"
                      /\ eff.history[i].after.book_id \in DOMAIN eff.books
                     THEN [eff.history[i] EXCEPT
                             !.after = to_dict(eff.books[eff.history[i].after.book_id])]
                     ELSE eff.history[i]]
  /\ last' = [op |-> op, res |-> eff.res, act |-> eff.act]
  /\ UNCHANGED <<variant, apo, opo, game>>

\* ---------------------------------------------------------------- actions
\* A handler runs to completion: the state becomes what it leaves behind.
Do(op, eff) ==
  /\ books' = eff.books
  /\ db' = eff.db
  /\ queue' = eff.queue
  /\ history' = eff.history
  /\ last' = [op |-> op, res |-> eff.res, act |-> eff.act]
  /\ UNCHANGED <<variant, apo, opo, game>>

\* the same, for the handlers the user can repeat without end: one that
\* would push an entry is tried only while the history is short
DoBounded(op, eff) ==
  /\ Len(eff.history) > Len(history) => Len(history) < MaxHist
  /\ \A bid \in DOMAIN eff.books : eff.books[bid].copies <= MaxCopies
  /\ Do(op, eff)

\* answers given in the dialogs
AddCopies == {1}
EditCopies == {0, 2}
Users == {"Ani"}

Add ==
  /\ \E bid \in TypedIds, copies \in AddCopies :
       DoBounded("add", add_book_dialog(Now, bid, "Judul", "Penulis", 100, copies, TRUE))
  /\ UNCHANGED <<timer, clock>>

\* title, author and pages are left at the values the dialogs propose (the
\* current ones); no dialog opens when the selected id is not in the catalog
Edit ==
  /\ \E line \in book_listbox, copies \in EditCopies :
       LET bid == selected_id(line)
           b == IF bid \in DOMAIN books THEN books[bid]
                ELSE Book(bid, NoString, NoString, Cancelled, Cancelled)
       IN DoBounded("edit",
                    edit_book_dialog(Now, line, b.title, b.author, b.pages, copies, TRUE))
  /\ UNCHANGED <<timer, clock>>

Delete ==
  /\ \E line \in book_listbox : DoBounded("delete", delete_book(Now, line, TRUE))
  /\ UNCHANGED <<timer, clock>>

Enqueue ==
  /\ clock < MaxClock
  /\ \E line \in book_listbox, user \in Users :
       Do("enqueue", borrow_enqueue(Now, variant, line, user, clock + 1))
  /\ clock' = clock + 1
  /\ UNCHANGED timer

Step ==
  /\ Do("step", process_one_request(Now, TRUE))
  /\ UNCHANGED <<timer, clock>>

\* root.after: one more callback pending
after(t) == t + 1

\* a worker that returns early, before root.after, when the queue is empty
Tick_returns_early ==
  /\ timer > 0
  /\ Do("tick", process_queue_worker(Now, TRUE))
  /\ timer' = IF is_empty(queue) THEN timer - 1 ELSE after(timer - 1)
  /\ UNCHANGED clock

\* the callback fires (one pending callback less) and runs the worker,
\* whose last statement is root.after
Tick ==
  /\ timer > 0
  /\ Do("tick", process_queue_worker(Now, TRUE))
  /\ timer' = after(timer - 1)
  /\ UNCHANGED clock

Return ==
  /\ \E line \in book_listbox : DoBounded("return", return_book(Now, line, TRUE))
  /\ UNCHANGED <<timer, clock>>

Undo ==
  /\ Do("undo", undo_last(Now, TRUE))
  /\ UNCHANGED <<timer, clock>>

Variants == {"apa", "apipi"}

Init ==
  /\ variant \in Variants
  /\ db = sample
  /\ books = load_db(sample)
  /\ queue = <<>>
  /\ history = <<>>
  /\ timer = after(0)
  /\ clock = 0
  /\ last = [op |-> "init", res |-> "", act |-> ""]
  /\ apo = apo_LibraryApp(<<>>)
  /\ opo = opo_TranslatorApp
  /\ game = MemoryGame("MemoryGame", Dealt)

Next ==
  \/ Add
  \/ Edit
  \/ Delete
  \/ Enqueue
  \/ Step
  \/ Tick
  \/ Return
  \/ Undo

Spec == Init /\ [][Next]_vars

\* the timer fires whenever a callback is pending (Tk's event loop keeps
\* running, also inside the modal dialogs)
\* Add, Edit and Return touch neither the queue nor the timer and are left
\* out; Delete stays, for the requests whose book is gone.
LiveNext ==
  \/ Delete
  \/ Enqueue
  \/ Step
  \/ Tick
  \/ Undo

LiveSpec == Init /\ [][LiveNext]_vars /\ WF_vars(Tick)

\* --------------------------------------------- catalog and history alone
\* The handlers that record an entry, tried to a greater depth of history
\* and with every field of a book edited; no request is submitted.
DoUpTo(n, op, eff) ==
  /\ Len(eff.history) > Len(history) => Len(history) < n
  /\ \A bid \in DOMAIN eff.books : eff.books[bid].copies <= MaxCopies
  /\ Do(op, eff)

CrudAdd ==
  /\ \E bid \in TypedIds, copies \in AddCopies :
       DoUpTo(MaxCrud, "add",
              add_book_dialog(Now, bid, "Judul", "Penulis", 100, copies, TRUE))
  /\ UNCHANGED <<timer, clock>>

\* the dialogs are answered with the proposed values or with new ones
CrudEdit ==
  /\ \E line \in book_listbox, fresh \in BOOLEAN, copies \in EditCopies :
       LET bid == selected_id(line)
           b == IF bid \in DOMAIN books THEN books[bid]
                ELSE Book(bid, NoString, NoString, Cancelled, Cancelled)
           title == IF fresh THEN "Edisi Kedua" ELSE b.title
           author == IF fresh THEN "Dewi" ELSE b.author
           pages == IF fresh THEN 200 ELSE b.pages
       IN DoUpTo(MaxCrud, "edit",
                 edit_book_dialog(Now, line, title, author, pages, copies, TRUE))
  /\ UNCHANGED <<timer, clock>>

CrudDelete ==
  /\ \E line \in book_listbox :
       DoUpTo(MaxCrud, "delete", delete_book(Now, line, TRUE))
  /\ UNCHANGED <<timer, clock>>

CrudReturn ==
  /\ \E line \in book_listbox :
       DoUpTo(MaxCrud, "return", return_book(Now, line, TRUE))
  /\ UNCHANGED <<timer, clock>>

CrudNext ==
  \/ CrudAdd
  \/ CrudEdit
  \/ CrudDelete
  \/ CrudReturn
  \/ Undo

CrudSpec == Init /\ [][CrudNext]_vars

\* ------------------------------------------------ the history at work
\* The handlers that push and pop entries for the seeded books, requests
\* processed by the button alone.
LedgerNext ==
  \/ Edit
  \/ Delete
  \/ Return
  \/ Enqueue
  \/ Step
  \/ Undo

LedgerSpec == Init /\ [][LedgerNext]_vars

\* ------------------------------------------------- writes that may fail
\* The handlers of the catalog with a file that cannot always be written:
\* each call of save_db inside a handler succeeds or fails as a whole.
DiskAdd ==
  /\ \E bid \in TypedIds, copies \in AddCopies, w \in BOOLEAN :
       DoBounded("add", add_book_dialog(Now, bid, "Judul", "Penulis", 100, copies, w))
  /\ UNCHANGED <<timer, clock>>

DiskEdit ==
  /\ \E line \in book_listbox, copies \in EditCopies, w \in BOOLEAN :
       LET bid == selected_id(line)
           b == IF bid \in DOMAIN books THEN books[bid]
                ELSE Book(bid, NoString, NoString, Cancelled, Cancelled)
       IN DoBounded("edit", edit_book_dialog(Now, line, b.title, b.author,
                                             b.pages, copies, w))
  /\ UNCHANGED <<timer, clock>>

DiskDelete ==
  /\ \E line \in book_listbox, w \in BOOLEAN :
       DoBounded("delete", delete_book(Now, line, w))
  /\ UNCHANGED <<timer, clock>>

DiskReturn ==
  /\ \E line \in book_listbox, w \in BOOLEAN :
       DoBounded("return", return_book(Now, line, w))
  /\ UNCHANGED <<timer, clock>>

DiskUndo ==
  /\ \E w \in BOOLEAN : Do("undo", undo_last(Now, w))
  /\ UNCHANGED <<timer, clock>>

DiskNext ==
  \/ DiskAdd
  \/ DiskEdit
  \/ DiskDelete
  \/ DiskReturn
  \/ DiskUndo

DiskSpec == Init /\ [][DiskNext]_vars

\* ------------------------------------------------- adds and deletes alone
\* Books are added and deleted and nothing is undone, so that the history
\* keeps one entry for every add and every delete that succeeded.
CountAdd ==
  /\ \E bid \in TypedIds, copies \in AddCopies :
       DoUpTo(MaxOps, "add",
              add_book_dialog(Now, bid, "Judul", "Penulis", 100, copies, TRUE))
  /\ UNCHANGED <<timer, clock>>

CountDelete ==
  /\ \E line \in book_listbox :
       DoUpTo(MaxOps, "delete", delete_book(Now, line, TRUE))
  /\ UNCHANGED <<timer, clock>>

CountNext ==
  \/ CountAdd
  \/ CountDelete

CountSpec == Init /\ [][CountNext]_vars

\* ------------------------------------------- the status-based library runs
\* The handlers of src/apo.py behind its buttons.  The run starts without a
\* library_db.json or with one an earlier run has saved.
lib_vars == <<variant, books, db, queue, history, timer, clock, last>>

LibraryAtRest ==
  /\ variant = "apa"
  /\ db = sample
  /\ books = load_db(sample)
  /\ queue = <<>>
  /\ history = <<>>
  /\ timer = after(0)
  /\ clock = 0
  /\ last = [op |-> "init", res |-> "", act |-> ""]

ApoDo(a) ==
  /\ Len(a.heap) <= MaxObjects
  /\ Len(a.undo_stack) <= MaxUndo
  /\ Len(a.loan_queue) <= MaxLoans
  /\ apo' = a
  /\ UNCHANGED <<lib_vars, opo, game>>

\* what is typed in the title field (author and year are always filled)
ApoTitles == {"", "Negeri 5 Menara"}

\* the selected row of the Treeview; 0 when no row is selected
ApoRows == 0..Len(apo.tree)

ApoAdd ==
  \E title \in ApoTitles : ApoDo(apo_add_book(apo, title, "A. Fuadi", "2009"))

ApoEdit ==
  \E row \in ApoRows : ApoDo(apo_edit_book(apo, row, "Edisi Revisi", "Editor", "2020"))

ApoDelete ==
  \E row \in ApoRows : ApoDo(apo_delete_book(apo, row))

ApoRequest ==
  \E row \in ApoRows : ApoDo(apo_request_loan(apo, row))

ApoProcess == ApoDo(apo_process_queue(apo))

ApoUndo == ApoDo(apo_undo_action(apo))

ApoInit ==
  /\ LibraryAtRest
  /\ apo \in {apo_LibraryApp(file) : file \in {<<>>, apo_saved}}
  /\ opo = opo_TranslatorApp
  /\ game = MemoryGame("MemoryGame", Dealt)

ApoNext ==
  \/ ApoAdd
  \/ ApoEdit
  \/ ApoDelete
  \/ ApoRequest
  \/ ApoProcess
  \/ ApoUndo

ApoSpec == ApoInit /\ [][ApoNext]_vars

\* ---------------------------------------------------- the translator runs
\* The handlers of src/opo.py behind its buttons, and the worker that Tk
\* calls back while a callback is pending.
OpoDo(o) ==
  /\ o.time <= MaxTime
  /\ opo' = o
  /\ UNCHANGED <<lib_vars, apo, game>>

\* what is typed in the input box, and the choices of the two comboboxes
OpoTexts == {<<>>, <<"makan">>, <<"Buku", "bukumu">>}
OpoLanguages == {"Indonesian", "English"}

OpoEnqueue ==
  \E text \in OpoTexts, src \in OpoLanguages, tgt \in OpoLanguages :
    OpoDo(opo_enqueue_translate(opo, text, src, tgt))

OpoTranslateNow ==
  \E text \in OpoTexts, src \in OpoLanguages, tgt \in OpoLanguages :
    OpoDo(opo_translate_now(opo, text, src, tgt))

OpoUndo == OpoDo(opo_undo(opo))

OpoClearAll == \E yes \in BOOLEAN : OpoDo(opo_clear_all(opo, yes))

OpoTick ==
  /\ opo.pending > 0
  /\ OpoDo(opo_queue_worker(opo))

OpoInit ==
  /\ LibraryAtRest
  /\ apo = apo_LibraryApp(<<>>)
  /\ opo = opo_TranslatorApp
  /\ game = MemoryGame("MemoryGame", Dealt)

OpoNext ==
  \/ OpoEnqueue
  \/ OpoTranslateNow
  \/ OpoUndo
  \/ OpoClearAll
  \/ OpoTick

OpoSpec == OpoInit /\ [][OpoNext]_vars

\* Tk's event loop runs as long as the window is open and calls the worker
\* back whenever a callback is pending
OpoLiveSpec == OpoInit /\ [][OpoNext]_vars /\ WF_vars(OpoTick)

\* ---------------------------------------------------- the memory games run
\* The clicks on the cards and on the two buttons, and the callbacks that Tk
\* runs while they are pending.  A click on a disabled card does nothing.
GameDo(g) ==
  /\ g.steps <= MaxSteps
  /\ g.checks <= MaxPending
  /\ g.timers <= MaxPending
  /\ game' = g
  /\ UNCHANGED <<lib_vars, apo, opo>>

GameOpen ==
  \E index \in Cards :
    /\ game.buttons[index].state = "normal"
    /\ GameDo(open_card(game, index))

GameCheck ==
  /\ game.checks > 0
  /\ GameDo(check_match(game))

GameUndo == GameDo(undo_move(game))

GameRestart == \E numbers \in Shuffles : GameDo(restart_game(game, numbers))

GameTimer ==
  /\ game.timers > 0
  /\ GameDo(timer_callback(game))

GameInit ==
  /\ LibraryAtRest
  /\ apo = apo_LibraryApp(<<>>)
  /\ opo = opo_TranslatorApp
  /\ game \in {MemoryGame(kind, numbers) : kind \in GameKinds, numbers \in Shuffles}

GameNext ==
  \/ GameOpen
  \/ GameCheck
  \/ GameUndo
  \/ GameRestart
  \/ GameTimer

GameSpec == GameInit /\ [][GameNext]_vars

\* ------------------------------------------------------------ properties
Top(h) == h[Len(h)]
ButLast(h) == SubSeq(h, 1, Len(h) - 1)
Processing == {"step", "tick"}
InQueue(k) == \E i \in 1..Len(queue) : queue[i].request_id = k

\* C1: in every reachable state every book of the catalog has copies >= 0.
CopiesNonNegative == \A bid \in DOMAIN books : books[bid].copies >= 0

\* a request has just been refused because the book has no copy left
CopiesNonNegativeWitness ==
  /\ last.res = "borrow_failed"
  /\ \E bid \in DOMAIN books : books[bid].copies = 0

\* C2: requests leave the queue in the order they entered it.  A processing
\* step on a non-empty queue removes the head, which is older than every
\* request that stays; the requests that stay keep their order; any other
\* step leaves the queue alone or adds one request, newer than all, at the
\* tail.
FifoOrder ==
  [][ /\ (last'.op \in Processing /\ queue # <<>>) =>
           /\ queue' = Tail(queue)
           /\ \A i \in 1..Len(queue') : Head(queue).request_id < queue'[i].request_id
      /\ (last'.op \notin Processing) =>
           \/ queue' = queue
           \/ /\ Len(queue') = Len(queue) + 1
              /\ SubSeq(queue', 1, Len(queue)) = queue
              /\ \A i \in 1..Len(queue) :
                   queue[i].request_id < queue'[Len(queue')].request_id
    ]_vars

\* two requests were waiting and the older one has just been processed
FifoOrderWitness ==
  /\ last.op \in Processing
  /\ Len(queue) = 1
  /\ history # <<>>
  /\ Top(history).action \in {"borrow", "borrow_failed"}
  /\ Top(history).req.request_id < Head(queue).request_id

\* C3: a manual step on a non-empty queue removes exactly the head request
\* and does not put it back; when the book has a copy, its copies drop by
\* one and a borrow entry with the request is the new top of the history;
\* when it has none, the catalog is unchanged and a borrow_failed entry with
\* the request is the new top.
ManualStepEffect ==
  [][ (last'.op = "step" /\ queue # <<>>) =>
        LET req == Head(queue)
            bid == req.book_id
        IN /\ queue' = Tail(queue)
           /\ \A i \in 1..Len(queue') : queue'[i] # req
           /\ (bid \in DOMAIN books /\ books[bid].copies > 0) =>
                /\ books' = [books EXCEPT ![bid].copies = books[bid].copies - 1]
                /\ history' = Append(history, [action |-> "borrow", req |-> req])
           /\ (bid \in DOMAIN books /\ books[bid].copies = 0) =>
                /\ books' = books
                /\ history' = Append(history, [action |-> "borrow_failed", req |-> req])
    ]_vars

\* a manual step has just refused a request, after an earlier one was served
ManualStepEffectWitness ==
  /\ last.op = "step"
  /\ last.res = "borrow_failed"
  /\ Len(history) >= 2
  /\ history[Len(history) - 1].action = "borrow"
  /\ Top(history).action = "borrow_failed"

\* C4: from every reachable state the timed tick and the manual step leave
\* the same catalog, the same queue and the same history.
TickEqualsManualStep ==
  LET m == process_one_request(Now, TRUE)
      t == process_queue_worker(Now, TRUE)
  IN /\ m.books = t.books
     /\ m.queue = t.queue
     /\ m.history = t.history

\* C5: a manual step or a tick on an empty queue changes neither the
\* catalog nor the queue nor the history.
EmptyQueueNoChange ==
  [][ (last'.op \in Processing /\ queue = <<>>) =>
        /\ last'.res = "QueueEmpty"
        /\ books' = books
        /\ queue' = queue
        /\ history' = history
    ]_vars

\* the queue was found empty while the history held entries
EmptyQueueNoChangeWitness ==
  /\ last.op \in Processing
  /\ last.res = "QueueEmpty"
  /\ history # <<>>

ErrorsLeaveStateUnchanged ==
  [][ last'.res \in {"DuplicateId", "NotFound"} =>
        /\ books' = books
        /\ queue' = queue
        /\ history' = history
    ]_vars

\* C8: undo on a non-empty history removes its last entry and nothing else,
\* pushes nothing, and leaves the queue alone.
UndoPopsOne ==
  [][ (last'.op = "undo" /\ history # <<>>) =>
        /\ history' = ButLast(history)
        /\ queue' = queue
    ]_vars

\* an undo has run while entries stay in the history and requests wait
UndoPopsOneWitness ==
  /\ last.op = "undo"
  /\ last.res = "undone"
  /\ history # <<>>
  /\ queue # <<>>

\* C9: undo on an empty history reports that there is nothing to undo and
\* changes neither the catalog nor the queue nor the history.
UndoOnEmptyHistory ==
  [][ (last'.op = "undo" /\ history = <<>>) =>
        /\ last'.res = "NothingToUndo"
        /\ books' = books
        /\ queue' = queue
        /\ history' = history
    ]_vars

\* undo has found the history empty while a request waits
UndoOnEmptyHistoryWitness ==
  /\ last.op = "undo"
  /\ last.res = "NothingToUndo"
  /\ queue # <<>>

\* C10: when the head request asks for a book that has a copy, processing it
\* (by the manual step or by the tick) takes one copy, and an undo right
\* after it gives back the catalog and the history of before the processing.
BorrowThenUndo ==
  (/\ queue # <<>>
   /\ Head(queue).book_id \in DOMAIN books
   /\ books[Head(queue).book_id].copies > 0) =>
    \A s1 \in {process_one_request(Now, TRUE), process_queue_worker(Now, TRUE)} :
      LET bid == Head(queue).book_id
          s2 == undo_last(s1, TRUE)
      IN /\ s1.res = "borrow"
         /\ s1.books[bid].copies = books[bid].copies - 1
         /\ s2.books[bid].copies = books[bid].copies
         /\ s2.books = books
         /\ s2.history = history

\* a borrow has just been undone, the history still holds an entry, and the
\* next request asks for a book that has a copy
BorrowThenUndoWitness ==
  /\ last.op = "undo"
  /\ last.act = "borrow"
  /\ last.res = "undone"
  /\ history # <<>>
  /\ queue # <<>>
  /\ Head(queue).book_id \in DOMAIN books
  /\ books[Head(queue).book_id].copies > 0

\* C11: returning a listed book and undoing right after it gives back the
\* catalog and the history of before the return, also when the book had no
\* copy left; and whenever a return entry is on top of the history, the undo
\* takes one copy from a book that has one and never leaves a negative count.
ReturnThenUndo ==
  /\ \A line \in book_listbox :
       selected_id(line) \in DOMAIN books =>
         LET bid == selected_id(line)
             s1 == return_book(Now, line, TRUE)
             s2 == undo_last(s1, TRUE)
         IN /\ s1.res = "returned"
            /\ s1.books[bid].copies = books[bid].copies + 1
            /\ s2.res = "undone"
            /\ s2.books[bid].copies = books[bid].copies
            /\ s2.books = books
            /\ s2.history = history
  /\ (/\ history # <<>>
      /\ Top(history).action = "return"
      /\ Top(history).book_id \in DOMAIN books) =>
       LET bid == Top(history).book_id
           u == undo_last(Now, TRUE)
       IN /\ u.books[bid].copies >= 0
          /\ books[bid].copies > 0 => u.books[bid].copies = books[bid].copies - 1
          /\ \A other \in DOMAIN books \ {bid} : u.books[other] = books[other]

\* a return has just been undone and the book it was for has no copy again
ReturnThenUndoWitness ==
  /\ last.op = "undo"
  /\ last.act = "return"
  /\ last.res = "undone"
  /\ \E line \in book_listbox :
       /\ selected_id(line) \in DOMAIN books
       /\ books[selected_id(line)].copies = 0

\* C12: when the head request asks for a book that has no copy, processing it
\* (by the manual step or by the tick) leaves the book at 0 copies and puts a
\* borrow_failed entry for that request on top of the history; an undo right
\* after it removes that entry and changes no book and no queued request.
FailedBorrowThenUndo ==
  (/\ queue # <<>>
   /\ Head(queue).book_id \in DOMAIN books
   /\ books[Head(queue).book_id].copies = 0) =>
    \A s1 \in {process_one_request(Now, TRUE), process_queue_worker(Now, TRUE)} :
      LET bid == Head(queue).book_id
          s2 == undo_last(s1, TRUE)
      IN /\ s1.res = "borrow_failed"
         /\ s1.books[bid].copies = 0
         /\ s1.books = books
         /\ s1.history = Append(history, BorrowFailedEntry(Head(queue)))
         /\ s1.queue = Tail(queue)
         /\ s2.res = "undone"
         /\ s2.act = "borrow_failed"
         /\ s2.history = history
         /\ s2.books = books
         /\ s2.queue = s1.queue

\* a failed borrow has just been undone, and the next request again asks for
\* a book that has no copy
FailedBorrowThenUndoWitness ==
  /\ last.op = "undo"
  /\ last.act = "borrow_failed"
  /\ last.res = "undone"
  /\ queue # <<>>
  /\ Head(queue).book_id \in DOMAIN books
  /\ books[Head(queue).book_id].copies = 0

\* C13: deleting a listed book and undoing right after it puts the recorded
\* snapshot back under the same id: the catalog, as a map from id to fields,
\* is the catalog of before the delete.
DeleteThenUndo ==
  \A line \in book_listbox :
    selected_id(line) \in DOMAIN books =>
      LET bid == selected_id(line)
          s1 == delete_book(Now, line, TRUE)
          s2 == undo_last(s1, TRUE)
      IN /\ s1.res = "deleted"
         /\ bid \notin DOMAIN s1.books
         /\ s2.res = "undone"
         /\ s2.act = "delete"
         /\ bid \in DOMAIN s2.books
         /\ s2.books[bid] = from_dict(Top(s1.history).book)
         /\ s2.books = books
         /\ s2.history = history

\* a delete has just been undone: the book is back with the fields that had
\* been given to it by an edit
DeleteThenUndoWitness ==
  /\ last.op = "undo"
  /\ last.act = "delete"
  /\ last.res = "undone"
  /\ history # <<>>
  /\ Top(history).action = "edit"
  /\ Top(history).after.book_id \in DOMAIN books
  /\ to_dict(books[Top(history).after.book_id]) = Top(history).after

\* what undo_last makes of a state whose newest entry is an add entry
UndoneAdd(st) ==
  LET bid == Top(st.history).book.book_id
      u == undo_last(st, TRUE)
  IN /\ u.res = "undone"
     /\ u.act = "add"
     /\ u.history = ButLast(st.history)
     /\ u.queue = st.queue
     /\ IF bid \in DOMAIN st.books
          THEN /\ DOMAIN u.books = DOMAIN st.books \ {bid}
               /\ \A other \in DOMAIN u.books : u.books[other] = st.books[other]
          ELSE u.books = st.books

\* C14: undoing an add entry deletes the book with the entry's id when the
\* catalog has it, and when the catalog has it no more the undo changes no
\* book, reports no error and still removes the entry.  The second case is
\* taken on the reachable catalogs with an add entry for an id they lack put
\* on top of the history.
UndoOfAdd ==
  /\ (history # <<>> /\ Top(history).action = "add") => UndoneAdd(Now)
  /\ \A bid \in TypedIds \cup DOMAIN books :
       UndoneAdd([Now EXCEPT !.history =
                    push(history, AddEntry(to_dict(Book(bid, "Judul", "Penulis", 100, 1))))])

\* an add has just been undone: the added id is typed but not in the catalog,
\* and an earlier entry is still recorded
UndoOfAddWitness ==
  /\ last.op = "undo"
  /\ last.act = "add"
  /\ last.res = "undone"
  /\ history # <<>>
  /\ \E bid \in TypedIds : bid \notin DOMAIN books

\* C15: undoing an edit entry gives the edited book the title, the author,
\* the pages and the copies of the entry's before-snapshot; the book keeps
\* its id and every other book is unchanged.  An edit followed at once by an
\* undo therefore gives back the catalog of before the edit.
UndoOfEdit ==
  /\ (/\ history # <<>>
      /\ Top(history).action = "edit"
      /\ Top(history).before.book_id \in DOMAIN books) =>
       LET before == Top(history).before
           bid == before.book_id
           u == undo_last(Now, TRUE)
       IN /\ u.res = "undone"
          /\ u.act = "edit"
          /\ DOMAIN u.books = DOMAIN books
          /\ u.books[bid].book_id = bid
          /\ u.books[bid].title = before.title
          /\ u.books[bid].author = before.author
          /\ u.books[bid].pages = before.pages
          /\ u.books[bid].copies = before.copies
          /\ \A other \in DOMAIN books \ {bid} : u.books[other] = books[other]
          /\ u.history = ButLast(history)
  /\ \A line \in book_listbox, copies \in EditCopies :
       selected_id(line) \in DOMAIN books =>
         LET s1 == edit_book_dialog(Now, line, "Edisi Kedua", "Dewi", 200, copies, TRUE)
             s2 == undo_last(s1, TRUE)
         IN /\ s1.res = "edited"
            /\ s1.books[selected_id(line)].title = "Edisi Kedua"
            /\ s2.books = books
            /\ s2.history = history

\* an edit that changed the title of a book has just been undone while an
\* edit of another book is still recorded and still in force
UndoOfEditWitness ==
  /\ last.op = "undo"
  /\ last.act = "edit"
  /\ last.res = "undone"
  /\ history # <<>>
  /\ Top(history).action = "edit"
  /\ Top(history).after.title = "Edisi Kedua"
  /\ Top(history).before.title # "Edisi Kedua"
  /\ books[Top(history).after.book_id].title = "Edisi Kedua"
  /\ \E bid \in DOMAIN books : books[bid].title # "Edisi Kedua"

\* an undo right after a handler that has pushed an entry, leaving s1 behind,
\* gives back the catalog and the history of now
Reversed(s1) ==
  Len(s1.history) = Len(history) + 1 =>
    LET u == undo_last(s1, TRUE)
    IN /\ ButLast(s1.history) = history
       /\ u.res = "undone"
       /\ u.act = Top(s1.history).action
       /\ u.books = books
       /\ u.history = history
       /\ history # <<>> => Top(u.history) = Top(history)

\* C16: the history is last in, first out.  In a state reached by a recorded
\* operation X, after any recorded operation Y (an add, an edit, a delete, a
\* return, a manual step or a tick that pushes an entry) one undo reverses Y
\* alone: the catalog is again the one X left, and the history is again the
\* one X left, with X's entry on top.
UndoIsLifo ==
  /\ \A bid \in TypedIds, copies \in AddCopies :
       Reversed(add_book_dialog(Now, bid, "Judul", "Penulis", 100, copies, TRUE))
  /\ \A line \in book_listbox, copies \in EditCopies :
       Reversed(edit_book_dialog(Now, line, "Edisi Kedua", "Dewi", 200, copies, TRUE))
  /\ \A line \in book_listbox :
       /\ Reversed(delete_book(Now, line, TRUE))
       /\ Reversed(return_book(Now, line, TRUE))
  /\ Reversed(process_one_request(Now, TRUE))
  /\ Reversed(process_queue_worker(Now, TRUE))

\* an undo has just reversed the newer of two operations of different kinds,
\* and the entry of the older one is on top
UndoIsLifoWitness ==
  /\ last.op = "undo"
  /\ last.res = "undone"
  /\ history # <<>>
  /\ Top(history).action # last.act
  /\ Top(history).action \in {"add", "edit", "delete", "return"}

\* the kinds of entry the history is specified to hold
Kinds == {"add", "delete", "edit", "borrow", "borrow_failed", "return"}

\* C17: every entry of the history has one of the six kinds add, delete,
\* edit, borrow, borrow_failed and return; no operation pushes an entry of
\* another kind.
OnlySixKinds ==
  \A i \in 1..Len(history) : history[i].action \in Kinds

\* C18: the entries of the history are snapshots: an operation pushes one
\* entry, pops one entry or leaves the history alone, and every entry that
\* stays is the very entry it was, whatever edit, borrow, return, delete or
\* undo has done to the book it describes.
EntriesAreSnapshots ==
  [][/\ Len(history') \in {Len(history) - 1, Len(history), Len(history) + 1}
     /\ \A i \in 1..Len(history) :
          i <= Len(history') => history'[i] = history[i]]_vars

\* a borrow has just taken a copy of a book whose recorded edit still shows
\* the copies the edit had set
EntriesAreSnapshotsWitness ==
  /\ last.op \in Processing
  /\ last.res = "borrow"
  /\ Len(history) >= 2
  /\ history[1].action = "edit"
  /\ history[1].after.book_id = Top(history).req.book_id
  /\ history[1].after.copies = books[history[1].after.book_id].copies + 1

\* C19: adding a book under an id the catalog already has fails as a
\* duplicate and changes nothing; adding it under a new id puts exactly that
\* book in the catalog and pushes exactly one add entry, whose snapshot is
\* the book that was put in.
AddEffect ==
  \A bid \in TypedIds \cup DOMAIN books, copies \in AddCopies :
    LET s1 == add_book_dialog(Now, bid, "Judul", "Penulis", 100, copies, TRUE)
    IN IF bid \in DOMAIN books
         THEN /\ s1.res = "DuplicateId"
              /\ s1.books = books
              /\ s1.history = history
              /\ s1.queue = queue
              /\ s1.db = db
         ELSE /\ s1.res = "added"
              /\ DOMAIN s1.books = DOMAIN books \cup {bid}
              /\ \A other \in DOMAIN books : s1.books[other] = books[other]
              /\ s1.books[bid] = Book(bid, "Judul", "Penulis", 100, copies)
              /\ Len(s1.history) = Len(history) + 1
              /\ ButLast(s1.history) = history
              /\ Top(s1.history).action = "add"
              /\ from_dict(Top(s1.history).book) = s1.books[bid]
              /\ s1.queue = queue

\* an add under the id of a book that an add had just put in the catalog
\* has been refused
AddEffectWitness ==
  /\ last.op = "add"
  /\ last.res = "DuplicateId"
  /\ history # <<>>
  /\ Top(history).action = "add"
  /\ Top(history).book.book_id \in DOMAIN books
  /\ to_dict(books[Top(history).book.book_id]) = Top(history).book

\* C20: deleting a listed book removes exactly that book from the catalog
\* and pushes exactly one delete entry, whose snapshot is the book as it was
\* just before; the queue is left as it is, requests for the deleted book
\* included.
DeleteEffect ==
  \A line \in book_listbox :
    selected_id(line) \in DOMAIN books =>
      LET bid == selected_id(line)
          s1 == delete_book(Now, line, TRUE)
      IN /\ s1.res = "deleted"
         /\ DOMAIN s1.books = DOMAIN books \ {bid}
         /\ \A other \in DOMAIN s1.books : s1.books[other] = books[other]
         /\ Len(s1.history) = Len(history) + 1
         /\ ButLast(s1.history) = history
         /\ Top(s1.history).action = "delete"
         /\ from_dict(Top(s1.history).book) = books[bid]
         /\ s1.queue = queue

\* a book has just been deleted while a request for it is waiting: the
\* request is still in the queue
DeleteEffectWitness ==
  /\ last.op = "delete"
  /\ last.res = "deleted"
  /\ Top(history).action = "delete"
  /\ Top(history).book.book_id \notin DOMAIN books
  /\ \E i \in 1..Len(queue) : queue[i].book_id = Top(history).book.book_id

\* the names update_book takes as keyword arguments
Fields == {"title", "author", "pages", "copies"}

\* C21: updating a book the catalog has changes the fields that are passed
\* and no other, never the id and never another book; the edit handler,
\* which passes all four, pushes exactly one edit entry whose "before" is the
\* book before the update and whose "after" is the book after it.
UpdateEffect ==
  \A line \in book_listbox :
    selected_id(line) \in DOMAIN books =>
      LET bid == selected_id(line)
          old == books[bid]
      IN /\ \A given \in SUBSET Fields :
              LET kw == Kwargs(given, "Edisi Kedua", "Dewi", 200, 2)
                  r == update_book_kwargs(books, db, bid, kw, TRUE)
              IN /\ r.raised = ""
                 /\ DOMAIN r.books = DOMAIN books
                 /\ \A other \in DOMAIN books \ {bid} : r.books[other] = books[other]
                 /\ r.books[bid].book_id = bid
                 /\ r.books[bid].title = IF "title" \in given THEN kw.title ELSE old.title
                 /\ r.books[bid].author = IF "author" \in given THEN kw.author ELSE old.author
                 /\ r.books[bid].pages = IF "pages" \in given THEN kw.pages ELSE old.pages
                 /\ r.books[bid].copies = IF "copies" \in given THEN kw.copies ELSE old.copies
         /\ \A copies \in EditCopies :
              LET r == update_book_kwargs(books, db, bid,
                                          Kwargs(Fields, "Edisi Kedua", "Dewi", 200, copies), TRUE)
                  s1 == edit_book_dialog(Now, line, "Edisi Kedua", "Dewi", 200, copies, TRUE)
              IN /\ r = update_book(books, db, bid, "Edisi Kedua", "Dewi", 200, copies, TRUE)
                 /\ s1.res = "edited"
                 /\ s1.books = r.books
                 /\ s1.history = Append(history, EditEntry(to_dict(old), to_dict(r.books[bid])))
                 /\ s1.queue = queue

\* an edit has just changed the title of a book and kept its copies: the
\* entry on top shows the book before and the book as it is now
UpdateEffectWitness ==
  /\ last.op = "edit"
  /\ last.res = "edited"
  /\ Top(history).action = "edit"
  /\ Top(history).before.title # Top(history).after.title
  /\ Top(history).before.copies = Top(history).after.copies
  /\ Top(history).before.book_id = Top(history).after.book_id
  /\ to_dict(books[Top(history).after.book_id]) = Top(history).after

\* C22: returning a listed book adds exactly one copy to it, whatever the
\* number it has and whether or not a copy was ever borrowed, and pushes
\* exactly one return entry that carries the id; every other book and the
\* queue stay as they are.
ReturnEffect ==
  \A line \in book_listbox :
    selected_id(line) \in DOMAIN books =>
      LET bid == selected_id(line)
          s1 == return_book(Now, line, TRUE)
          s2 == return_book(s1, line, TRUE)
      IN /\ s1.res = "returned"
         /\ DOMAIN s1.books = DOMAIN books
         /\ s1.books[bid] = [books[bid] EXCEPT !.copies = books[bid].copies + 1]
         /\ \A other \in DOMAIN books \ {bid} : s1.books[other] = books[other]
         /\ s1.history = Append(history, ReturnEntry(bid))
         /\ s1.queue = queue
         /\ s2.books[bid].copies = books[bid].copies + 2
         /\ s2.history = Append(s1.history, ReturnEntry(bid))

\* a book has just been returned though no request was ever made: it has
\* more copies than the catalog started with
ReturnEffectWitness ==
  /\ last.op = "return"
  /\ last.res = "returned"
  /\ clock = 0
  /\ Top(history).action = "return"
  /\ Top(history).book_id \in DOMAIN sample
  /\ books[Top(history).book_id].copies = sample[Top(history).book_id].copies + 1

RECURSIVE DrainBySteps(_), DrainByTicks(_)
\* the manual step, pressed until the queue is empty
DrainBySteps(st) ==
  IF is_empty(st.queue) THEN st ELSE DrainBySteps(process_one_request(st, TRUE))
\* the tick, left to fire until the queue is empty
DrainByTicks(st) ==
  IF is_empty(st.queue) THEN st ELSE DrainByTicks(process_queue_worker(st, TRUE))

Min(a, b) == IF a <= b THEN a ELSE b
Max(a, b) == IF a >= b THEN a ELSE b

\* C23: several requests for the same book may wait together and each is
\* processed on its own.  When the n waiting requests all ask for one book
\* that has k copies and they are processed with nothing in between, the
\* first min(k, n) of them push a borrow entry, the others a borrow_failed
\* entry, in the order of the queue, and the book is left with max(k - n, 0)
\* copies.
SameBookRequests ==
  (/\ queue # <<>>
   /\ Head(queue).book_id \in DOMAIN books
   /\ \A i \in 1..Len(queue) : queue[i].book_id = Head(queue).book_id) =>
    \A s \in {DrainBySteps(Now), DrainByTicks(Now)} :
      LET bid == Head(queue).book_id
          k == books[bid].copies
          n == Len(queue)
      IN /\ s.queue = <<>>
         /\ Len(s.history) = Len(history) + n
         /\ SubSeq(s.history, 1, Len(history)) = history
         /\ \A i \in 1..n :
              s.history[Len(history) + i] =
                IF i <= Min(k, n) THEN BorrowEntry(queue[i])
                                  ELSE BorrowFailedEntry(queue[i])
         /\ s.books[bid].copies = Max(k - n, 0)
         /\ \A other \in DOMAIN books \ {bid} : s.books[other] = books[other]

\* two requests for a book with one copy have been processed: the first
\* took the copy, the second has just failed, and the queue is empty
SameBookRequestsWitness ==
  /\ last.op \in Processing
  /\ last.res = "borrow_failed"
  /\ queue = <<>>
  /\ Len(history) >= 2
  /\ history[Len(history) - 1].action = "borrow"
  /\ Top(history).action = "borrow_failed"
  /\ Top(history).req.book_id = history[Len(history) - 1].req.book_id
  /\ Top(history).req.request_id # history[Len(history) - 1].req.request_id
  /\ books[Top(history).req.book_id].copies = 0

\* C24: a borrow request can be queued for every book the catalog has, also
\* one with no copy left: the handler appends exactly one request for that
\* book at the tail of the queue and leaves the catalog and the history as
\* they are.
EnqueueEffect ==
  \A line \in book_listbox, user \in Users :
    selected_id(line) \in DOMAIN books =>
      LET bid == selected_id(line)
          s1 == borrow_enqueue(Now, variant, line, user, clock + 1)
      IN /\ s1.res = "queued"
         /\ s1.queue = Append(queue, Request(clock + 1, bid, user))
         /\ s1.books = books
         /\ s1.history = history

\* the file that holds exactly the books of a catalog
Snapshot(bks) == [bid \in DOMAIN bks |-> to_dict(bks[bid])]

\* what a handler that completed with a successful write leaves behind
Persisted(s1, done) == s1.res = done => s1.db = Snapshot(s1.books)

\* C25: after every completed operation that changes the catalog (add,
\* edit, delete, a borrow that finds a copy, return, and an undo that
\* changes the catalog) the file holds exactly the catalog in memory when
\* the write succeeds, whatever the file held before.
SavedAfterChange ==
  /\ \A bid \in TypedIds, copies \in AddCopies :
       Persisted(add_book_dialog(Now, bid, "Judul", "Penulis", 100, copies, TRUE), "added")
  /\ \A line \in book_listbox :
       /\ \A copies \in EditCopies :
            Persisted(edit_book_dialog(Now, line, "Edisi Kedua", "Dewi", 200, copies, TRUE),
                      "edited")
       /\ Persisted(delete_book(Now, line, TRUE), "deleted")
       /\ Persisted(return_book(Now, line, TRUE), "returned")
       /\ \A user \in Users :
            LET asked == borrow_enqueue(Now, variant, line, user, clock + 1)
            IN /\ Persisted(process_one_request(asked, TRUE), "borrow")
               /\ Persisted(process_queue_worker(asked, TRUE), "borrow")
  /\ LET u == undo_last(Now, TRUE)
     IN u.books # books => u.db = Snapshot(u.books)

\* a delete has just completed and the file holds the catalog without the
\* deleted book
SavedAfterChangeWitness ==
  /\ last.op = "delete"
  /\ last.res = "deleted"
  /\ Top(history).action = "delete"
  /\ Top(history).book.book_id \notin DOMAIN db
  /\ db = Snapshot(books)

\* two outcomes of a handler that differ at most in the file
SameInMemory(a, b) ==
  /\ a.books = b.books
  /\ a.queue = b.queue
  /\ a.history = b.history
  /\ a.res = b.res
  /\ a.act = b.act

\* C26: when the write of the file fails inside an operation that changes
\* the catalog, the operation completes all the same: it leaves the catalog,
\* the queue and the history it leaves when the write succeeds, and reports
\* the same result, no error.
SaveFailureIsSilent ==
  /\ \A bid \in TypedIds, copies \in AddCopies :
       SameInMemory(add_book_dialog(Now, bid, "Judul", "Penulis", 100, copies, FALSE),
                    add_book_dialog(Now, bid, "Judul", "Penulis", 100, copies, TRUE))
  /\ \A line \in book_listbox :
       /\ \A copies \in EditCopies :
            SameInMemory(
              edit_book_dialog(Now, line, "Edisi Kedua", "Dewi", 200, copies, FALSE),
              edit_book_dialog(Now, line, "Edisi Kedua", "Dewi", 200, copies, TRUE))
       /\ SameInMemory(delete_book(Now, line, FALSE), delete_book(Now, line, TRUE))
       /\ SameInMemory(return_book(Now, line, FALSE), return_book(Now, line, TRUE))
       /\ \A user \in Users :
            LET asked == borrow_enqueue(Now, variant, line, user, clock + 1)
            IN /\ SameInMemory(process_one_request(asked, FALSE),
                               process_one_request(asked, TRUE))
               /\ SameInMemory(process_queue_worker(asked, FALSE),
                               process_queue_worker(asked, TRUE))
  /\ SameInMemory(undo_last(Now, FALSE), undo_last(Now, TRUE))

\* a delete has just completed though its write failed: the book is gone
\* from the catalog, recorded in the history and still in the file
SaveFailureIsSilentWitness ==
  /\ last.op = "delete"
  /\ last.res = "deleted"
  /\ Top(history).action = "delete"
  /\ Top(history).book.book_id \notin DOMAIN books
  /\ Top(history).book.book_id \in DOMAIN db

Count(kind) == Cardinality({i \in 1..Len(history) : history[i].action = kind})

\* C28: whatever adds and deletes have been tried, the full listing of the
\* catalog has as many books as were loaded at the start, plus one for every
\* add that succeeded, minus one for every delete that succeeded.
ListingSize ==
  /\ Len(list_books(books)) =
       Len(list_books(load_db(sample))) + Count("add") - Count("delete")
  /\ Len(list_books(books)) = Cardinality(DOMAIN books)
  /\ {list_books(books)[i].book_id : i \in 1..Len(list_books(books))} = DOMAIN books

\* two adds and two deletes have succeeded and the last attempt was refused
ListingSizeWitness ==
  /\ Count("add") >= 2
  /\ Count("delete") >= 2
  /\ last.res \in {"DuplicateId", "NotFound"}

\* C29: when the request at the head of the queue asks for a book that was
\* deleted (or whose add was undone) after the request was queued, the
\* processing step, manual or timed, fails with NotFound and leaves the
\* catalog, the queue and the history as they were.
MissingBookStep ==
  (/\ queue # <<>>
   /\ Head(queue).book_id \notin DOMAIN books) =>
    \A s1 \in {process_one_request(Now, TRUE), process_queue_worker(Now, TRUE)} :
      /\ s1.res = "NotFound"
      /\ s1.books = books
      /\ s1.queue = queue
      /\ s1.history = history

RECURSIVE UndoAll(_)
\* "Undo Terakhir", pressed until the history is empty
UndoAll(st) ==
  IF Len(st.history) = 0 THEN st ELSE UndoAll(undo_last(st, TRUE))

\* C30: the run starts with an empty history; after any sequence of adds,
\* edits, deletes, requests, processing steps and returns that succeeded,
\* undoing until the history is empty gives back the catalog of the start,
\* as a map from id to title, author, pages and copies.
UndoRoundTrip ==
  LET s == UndoAll(Now)
  IN /\ s.history = <<>>
     /\ s.books = load_db(sample)
     /\ s.queue = queue

\* the last of several undos has just emptied the history, after requests
\* were made and processed, and the catalog is the one of the start
UndoRoundTripWitness ==
  /\ last.op = "undo"
  /\ last.res = "undone"
  /\ last.act \in {"add", "edit", "delete", "return"}
  /\ history = <<>>
  /\ clock > 0
  /\ queue = <<>>
  /\ books = load_db(sample)

\* the book named by the last entry of st is where its reversal needs it,
\* and the undo button reverses that entry without an error
UndoSafe(st) ==
  Len(st.history) > 0 =>
    LET t == Top(st.history)
    IN /\ t.action = "edit" => t.before.book_id \in DOMAIN st.books
       /\ t.action = "borrow" => t.req.book_id \in DOMAIN st.books
       /\ t.action = "return" => t.book_id \in DOMAIN st.books
       /\ t.action = "delete" => t.book.book_id \notin DOMAIN st.books
       /\ \A w \in BOOLEAN :
            LET u == undo_last(st, w)
            IN /\ u.res = "undone"
               /\ u.res \notin {"NotFound", "DuplicateId"}
               /\ u.history = ButLast(st.history)

\* C31: the undo never fails in a reachable state.  Whenever the history is
\* not empty, now or right after any handler that may push an entry, the book
\* of the top entry is in the catalog for an edit, a borrow and a return and
\* is not in it for a delete, and the undo ends without NotFound and without
\* DuplicateId.
UndoNeverFails ==
  /\ UndoSafe(Now)
  /\ \A bid \in TypedIds, copies \in AddCopies :
       UndoSafe(add_book_dialog(Now, bid, "Judul", "Penulis", 100, copies, TRUE))
  /\ \A line \in book_listbox, copies \in EditCopies :
       UndoSafe(edit_book_dialog(Now, line, "Edisi Kedua", "Dewi", 200, copies, TRUE))
  /\ \A line \in book_listbox :
       /\ UndoSafe(delete_book(Now, line, TRUE))
       /\ UndoSafe(return_book(Now, line, TRUE))
  /\ UndoSafe(process_one_request(Now, TRUE))
  /\ UndoSafe(process_queue_worker(Now, TRUE))

\* the undo of a delete has just put the book back and emptied the history,
\* after a request was queued and taken from the queue
UndoNeverFailsWitness ==
  /\ last.op = "undo"
  /\ last.act = "delete"
  /\ last.res = "undone"
  /\ history = <<>>
  /\ queue = <<>>
  /\ clock > 0

\* with a return entry on top of the history of st, the returned book has a
\* copy and the undo takes exactly one
ReturnTopHasCopy(st) ==
  (/\ Len(st.history) > 0
   /\ Top(st.history).action = "return") =>
    LET bid == Top(st.history).book_id
        u == undo_last(st, TRUE)
    IN /\ bid \in DOMAIN st.books
       /\ st.books[bid].copies >= 1
       /\ u.res = "undone"
       /\ u.books[bid].copies = st.books[bid].copies - 1
       /\ u.books[bid].copies >= 0

\* C32: whenever a return entry is the top of the history, now or right after
\* any handler, the returned book has at least one copy, so the undo of a
\* return lowers the copies by exactly 1 and never meets a book at 0.
ReturnUndoNeverClamps ==
  /\ ReturnTopHasCopy(Now)
  /\ \A bid \in TypedIds, copies \in AddCopies :
       ReturnTopHasCopy(add_book_dialog(Now, bid, "Judul", "Penulis", 100, copies, TRUE))
  /\ \A line \in book_listbox :
       /\ \A copies \in EditCopies, pages \in {200, Cancelled} :
            ReturnTopHasCopy(edit_book_dialog(Now, line, "Edisi Kedua", "Dewi",
                                              pages, copies, TRUE))
       /\ ReturnTopHasCopy(delete_book(Now, line, TRUE))
       /\ ReturnTopHasCopy(return_book(Now, line, TRUE))
  /\ ReturnTopHasCopy(process_one_request(Now, TRUE))
  /\ ReturnTopHasCopy(process_queue_worker(Now, TRUE))
  /\ ReturnTopHasCopy(undo_last(Now, TRUE))

\* a book edited down to no copy has just been returned: the return entry is
\* on top, over the entry of the edit, and the book has its one copy
ReturnUndoNeverClampsWitness ==
  /\ last.op = "return"
  /\ last.res = "returned"
  /\ Len(history) = 2
  /\ Top(history).action = "return"
  /\ history[1].action = "edit"
  /\ history[1].after.book_id = Top(history).book_id
  /\ history[1].after.copies = 0
  /\ books[Top(history).book_id].copies = 1

\* C33: update_book is all or nothing.  Whenever it raises, for an id that is
\* not in the catalog or for pages or copies left unanswered in the dialog,
\* no field of any book has changed, the edit handler has pushed no entry and
\* a file that held the catalog before the call still holds it.
UpdateAllOrNothing ==
  \A bid \in DOMAIN books \cup TypedIds,
     pages \in {200, Cancelled}, copies \in {2, Cancelled} :
    LET r == update_book(books, db, bid, "Edisi Kedua", "Dewi", pages, copies, TRUE)
        s1 == edit_book_dialog(Now, display(Book(bid, "", "", 0, 0)),
                               "Edisi Kedua", "Dewi", pages, copies, TRUE)
    IN r.raised # "" =>
         /\ r.books = books
         /\ s1.books = books
         /\ s1.history = history
         /\ db = Snapshot(books) => r.db = Snapshot(r.books)

\* C34: in src/apo.py a book that is out ("Dipinjam") is never lent again.
\* When the request at the head of the loan queue is for a book that is
\* already "Dipinjam", process_queue reports no loan and records none: of
\* two waiting requests for the same book only the first succeeds.
LentOnlyWhenAvailable ==
  (/\ apo.loan_queue # <<>>
   /\ apo.heap[Head(apo.loan_queue)].status = "Dipinjam") =>
    LET s1 == apo_process_queue(apo)
    IN /\ s1.res # "Diproses"
       /\ s1.undo_stack = apo.undo_stack

\* the book lists of a and b hold the same books with the same title, author,
\* year and status, each as often in the one as in the other
SameShelf(a, b) ==
  LET ra == apo_rows(a)
      rb == apo_rows(b)
  IN \A v \in {ra[i] : i \in 1..Len(ra)} \cup {rb[i] : i \in 1..Len(rb)} :
       Cardinality({i \in 1..Len(ra) : ra[i] = v})
         = Cardinality({i \in 1..Len(rb) : rb[i] = v})

\* what may lie between an operation that left s and its undo: nothing, or
\* an add and its undo, or a delete and its undo
UndoneInBetween(s) ==
  {s} \cup {apo_undo_action(apo_add_book(s, "Negeri 5 Menara", "A. Fuadi", "2009"))}
      \cup {apo_undo_action(apo_delete_book(s, row)) : row \in 1..Len(s.tree)}

\* C35: in src/apo.py the undo of an edit gives the edited book its title,
\* author, year and status of before the edit and changes no other book,
\* whatever adds, deletes and undos of them were done between the edit and
\* its undo.
EditUndoRestores ==
  \A row \in 1..Len(apo.tree) :
    LET s1 == apo_edit_book(apo, row, "Edisi Revisi", "Editor", "2020")
    IN s1.res = "edited" =>
         \A s2 \in UndoneInBetween(s1) :
           LET u == apo_undo_action(s2)
           IN /\ u.res = "undone"
              /\ u.undo_stack = apo.undo_stack
              /\ SameShelf(u, apo)

RECURSIVE apo_undo_all(_)
\* the undo button, pressed until the undo stack is empty
apo_undo_all(a) ==
  IF a.undo_stack = <<>> THEN a ELSE apo_undo_all(apo_undo_action(a))

\* C36: in src/apo.py the undo of the entry of add_book takes exactly the
\* added book from the list, without an error, also when the book was edited
\* and the edit undone in between; and with every entry undone the list is
\* the one of before the first recorded operation.
AddUndoRemoves ==
  LET s1 == apo_add_book(apo, "Negeri 5 Menara", "A. Fuadi", "2009")
      s2 == apo_edit_book(s1, Len(s1.tree), "Edisi Revisi", "Editor", "2020")
      s3 == apo_undo_action(s2)
  IN \A s \in {s1, s3} :
       LET u == apo_undo_action(s)
       IN /\ u.res = "undone"
          /\ u.books = apo.books
          /\ SameShelf(u, apo)
          /\ apo.undo_stack = <<>> => SameShelf(apo_undo_all(s), apo)

\* a request made at time t waits in the queue of the translator
OpoInQueue(t) == \E i \in 1..Len(opo.q) : opo.q[i].time = t

\* the requests wait in the order they were made in
OpoQueueInOrder ==
  \A i, j \in 1..Len(opo.q) : i < j => opo.q[i].time < opo.q[j].time

\* a run of the worker: it leaves a callback pending; it changes nothing
\* else when the queue is empty, and otherwise takes the request at the head
\* of the queue, that one alone, and pushes one history entry made from it
OpoWorkerStep ==
  opo'.op = "queue_worker" =>
    /\ opo'.pending >= 1
    /\ opo'.pending = opo.pending
    /\ IF opo.q = <<>>
         THEN /\ opo'.q = <<>>
              /\ opo'.stack = opo.stack
              /\ opo'.processed = opo.processed
         ELSE /\ opo'.q = Tail(opo.q)
              /\ Len(opo'.stack) = Len(opo.stack) + 1
              /\ ButLast(opo'.stack) = opo.stack
              /\ Top(opo'.stack).time = Head(opo.q).time
              /\ Top(opo'.stack).original = Head(opo.q).text
              /\ Top(opo'.stack).translated =
                   opo_translate_text(Head(opo.q).text, Head(opo.q).src, Head(opo.q).tgt)
              /\ opo'.processed = opo.processed \cup {Head(opo.q).time}

\* C37: in the translator each run of queue_worker takes at most one request,
\* the one that has waited longest, pushes exactly one history entry for it
\* and schedules the next run; so every request that is put in the queue is
\* in the end taken by the worker, unless clear_all throws the queue away.
QueuedRequestsAreProcessed ==
  /\ [][OpoWorkerStep]_vars
  /\ []OpoQueueInOrder
  /\ \A t \in 1..MaxTime :
       OpoInQueue(t) ~> (t \in opo.processed \/ opo.res = "cleared")

\* the worker has taken two queued requests, the older one first, and the
\* second history entry holds a translation that differs from its text
QueuedRequestsAreProcessedWitness ==
  /\ opo.op = "queue_worker"
  /\ opo.res = "processed"
  /\ opo.q = <<>>
  /\ opo.processed = {1, 2}
  /\ Len(opo.stack) = 2
  /\ opo.stack[1].time = 1
  /\ opo.stack[2].time = 2
  /\ opo.stack[2].translated = <<"Book", "book">>
  /\ opo.stack[2].original = <<"Buku", "bukumu">>

\* C38: in the three memory games the delayed check_match always finds
\* exactly two opened cards.  While a check_match callback is pending,
\* whatever clicks, undos and restarts have come since it was scheduled,
\* opened_cards holds two positions and the callback ends without an error.
CheckFindsTwoCards ==
  game.checks > 0 =>
    /\ Len(game.opened_cards) = 2
    /\ check_match(game).res # "ValueError"

\* one second later: each of the n update_timer callbacks has fired once
RECURSIVE second_passes(_, _)
second_passes(g, n) ==
  IF n = 0 THEN g ELSE second_passes(timer_callback(g), n - 1)

\* C39: in the timed game restart_game resets the timer for good.  At most
\* one update_timer callback is pending at any time, time_seconds stays
\* between 0 and its start value, and when one second has passed (every
\* pending callback has fired once) time_seconds is lower by at most 1.
OneTimerPending ==
  game.kind = "Fiks" =>
    /\ game.timers <= 1
    /\ game.time_seconds >= 0
    /\ game.time_seconds <= StartSeconds
    /\ second_passes(game, game.timers).time_seconds >= game.time_seconds - 1

\* the values that lie face up on both of their cards, none of them among
\* the cards that wait for check_match
MatchedPairs(g) ==
  {v \in 1..Pairs :
     \A i \in Cards :
       g.numbers[i] = v =>
         /\ g.buttons[i].text # 0
         /\ \A k \in 1..Len(g.opened_cards) : g.opened_cards[k] # i}

\* C40: in the memory games, between two restarts, every pair value is put
\* in queue_finish at most once: the size of the queue is the number of pairs
\* that lie matched on the table and never exceeds the number of pairs, and
\* the completion message is shown only with every pair matched, whatever
\* undo_move calls come in between.
EachPairFinishedOnce ==
  /\ \A i, j \in 1..Len(game.queue_finish) :
       i # j => game.queue_finish[i] # game.queue_finish[j]
  /\ Len(game.queue_finish) <= Pairs
  /\ Len(game.queue_finish) = Cardinality(MatchedPairs(game))
  /\ game.res = "Selesai!" => MatchedPairs(game) = 1..Pairs

====
